---- MODULE Spec2Model ----
(***************************************************************************)
(* Narration playback state machine of the EPUB viewer (src/app/update.rs) *)
(* App::update = App::reduce followed by App::run_effect on every emitted  *)
(* effect, in emission order.  Time is counted in whole clock units.       *)
(***************************************************************************)
EXTENDS Integers, Sequences, FiniteSets, TLC

VARIABLES
    app,         \* the App aggregate: reader, config, tts, bookmark
    inflight,    \* prepare tasks spawned and not yet completed: the message
                 \* the task will send, its ordinal among the issued
                 \* requests and the number of sentences it synthesizes
    issued,      \* the request_id of every prepare request issued, in order
    clock,       \* Instant::now()
    tick_queue,  \* the instants of the Tick messages produced by the
                 \* subscription and not yet reduced
    last,        \* the message reduced by the latest update and what it emitted
    normalizer,  \* the TextNormalizer: its configuration
    planning,    \* the display sentences handed to plan_page and the plan
                 \* it returned, if it has returned
    calls        \* the calls of plan_page made one after the other on pages
                 \* of the book: what each was handed and what it returned

vars == <<app, inflight, issued, clock, tick_queue, last, normalizer, planning, calls>>

-----------------------------------------------------------------------------
(* Bounds of the model *)

MaxTime == 2
MaxRequests == 2
MaxTicksQueued == 1

(* request_id is a u64; the model keeps this many bits of it, so that the
   counter wraps at 2^RequestIdBits as the program's wraps at 2^64 *)
RequestIdBits == 4

(* Clip durations prepare_batch can report, in clock units *)
Durations == {1, 2}

-----------------------------------------------------------------------------
(* Option<T>: None is the empty sequence, Some(x) the one-element sequence *)

None == <<>>

Some(x) == <<x>>

IsSome(o) == o # <<>>

Unwrap(o) == o[1]

unwrap_or(o, d) == IF o = <<>> THEN d ELSE o[1]

Min(a, b) == IF a <= b THEN a ELSE b

Max(a, b) == IF a >= b THEN a ELSE b

clamp(v, lo, hi) == Max(lo, Min(v, hi))

saturating_sub(a, b) == IF a >= b THEN a - b ELSE 0

(* Instant::saturating_duration_since *)
saturating_duration_since(now, earlier) == saturating_sub(now, earlier)

RECURSIVE GCD(_, _)
GCD(a, b) == IF b = 0 THEN a ELSE GCD(b, a % b)

(* A fraction n/d in lowest terms, standing for an f32 in [0, 1] *)
Frac(n, d) == IF n = 0 THEN <<0, 1>> ELSE <<n \div GCD(n, d), d \div GCD(n, d)>>

(* RelativeOffset::START *)
START == [x |-> <<0, 1>>, y |-> <<0, 1>>]

-----------------------------------------------------------------------------
(* The document and its pagination.  A page is a sequence of lines; a line *)
(* is a sentence (its number) or blank (0).                                 *)

FullText == <<1, 2, 0>>

MIN_FONT_SIZE == 1
MAX_FONT_SIZE == 2
MIN_LINES_PER_PAGE == 1
MAX_LINES_PER_PAGE == 3
MIN_TTS_SPEED == 1
MAX_TTS_SPEED == 2

LinesCapacity(font_size, lines_per_page) ==
    Max(1, lines_per_page - (font_size - MIN_FONT_SIZE))

RECURSIVE Chunks(_, _)
Chunks(text, k) ==
    IF Len(text) = 0 THEN <<>>
    ELSE IF Len(text) <= k THEN <<text>>
    ELSE <<SubSeq(text, 1, k)>> \o Chunks(SubSeq(text, k + 1, Len(text)), k)

paginate(text, font_size, lines_per_page) ==
    Chunks(text, LinesCapacity(font_size, lines_per_page))

IsSentence(line) == line # 0

split_sentences(page) == SelectSeq(page, IsSentence)

(* reader.pages.get(page).unwrap_or(""): pages are indexed from 0 *)
page_text(a, page) ==
    IF page < Len(a.reader.pages) THEN a.reader.pages[page + 1] ELSE <<>>

Contains(page, sentence) == \E i \in 1..Len(page) : page[i] = sentence

(* Iterator::position: index of the first page holding the sentence *)
position(pages, sentence) ==
    IF \E i \in 1..Len(pages) : Contains(pages[i], sentence)
    THEN Some((CHOOSE i \in 1..Len(pages) :
                  /\ Contains(pages[i], sentence)
                  /\ \A j \in 1..(i - 1) : ~Contains(pages[j], sentence)) - 1)
    ELSE None

repaginate(a) ==
    LET ps == paginate(FullText, a.config.font_size, a.config.lines_per_page)
        pages == IF Len(ps) = 0 THEN <<<<3>>>> ELSE ps
        cur == IF a.reader.current_page >= Len(pages)
               THEN Len(pages) - 1 ELSE a.reader.current_page
    IN [a EXCEPT !.reader.pages = pages, !.reader.current_page = cur]

-----------------------------------------------------------------------------
(* Effects (update.rs, enum Effect) as tuples *)

SaveConfig == <<"SaveConfig">>
SaveBookmark == <<"SaveBookmark">>
StartTts(page, sentence_idx) == <<"StartTts", page, sentence_idx>>
StopTts == <<"StopTts">>
ScrollTo(offset) == <<"ScrollTo", offset>>
AutoScrollToCurrent == <<"AutoScrollToCurrent">>

-----------------------------------------------------------------------------
(* Helpers of the reducer *)

stop_playback_keeps_running(a) == [a EXCEPT !.tts.playback = None]

stop_playback(a) ==
    [a EXCEPT !.tts.playback = None, !.tts.running = FALSE]

scroll_offset_for_sentence(a, sentence_idx, total_sentences) ==
    IF total_sentences = 0 THEN None
    ELSE LET clamped_idx == Min(sentence_idx, saturating_sub(total_sentences, 1))
             denom == Max(saturating_sub(total_sentences, 1), 1)
             n == IF a.config.center_spoken_sentence
                  THEN Max(2 * clamped_idx - 1, 0)
                  ELSE 2 * clamped_idx
         IN Some([x |-> <<0, 1>>, y |-> Frac(Min(n, 2 * denom), 2 * denom)])

(* The largest request_id: u64::MAX, at the model's width *)
REQUEST_ID_MAX == 2^RequestIdBits - 1

(* u64::wrapping_add, at the model's width *)
wrapping_add_stuck(a, b) == a

wrapping_add_reset(a, b) == b

wrapping_add(a, b) == (a + b) % (2^RequestIdBits)

(* Returns the new state and the prepare task it spawned, if any: what the
   TtsPrepared message of the task will carry, and how many sentences were
   handed to prepare_batch *)
start_playback_from(a, page, sentence_idx) ==
    IF ~a.tts.engine THEN [app |-> a, task |-> None]
    ELSE
      LET a1 == stop_playback(a)
          sentences == split_sentences(page_text(a, page))
          a2 == [a1 EXCEPT !.tts.track = <<>>, !.tts.elapsed = 0,
                           !.tts.started_at = None,
                           !.tts.last_sentences = sentences]
      IN IF Len(sentences) = 0
         THEN [app |-> [a2 EXCEPT !.tts.current_sentence_idx = None,
                                  !.tts.sentence_offset = 0],
               task |-> None]
         ELSE
           LET idx == Min(sentence_idx, saturating_sub(Len(sentences), 1))
               rid == wrapping_add(a2.tts.request_id, 1)
           IN [app |-> [a2 EXCEPT !.tts.sentence_offset = idx,
                                  !.tts.current_sentence_idx = Some(idx),
                                  !.tts.started_at = None,
                                  !.tts.elapsed = 0,
                                  !.tts.request_id = rid],
               task |-> Some([page |-> page, start_idx |-> idx,
                              request_id |-> rid, sentences |-> Len(sentences)])]

go_to_page_unguarded(a, new_page) ==
    [app |-> [a EXCEPT !.reader.current_page = new_page,
                       !.bookmark.last_scroll_offset = START],
     effects |-> <<StartTts(new_page, 0), AutoScrollToCurrent, SaveBookmark>>]

go_to_page(a, new_page) ==
    IF new_page < Len(a.reader.pages)
    THEN [app |-> [a EXCEPT !.reader.current_page = new_page,
                            !.bookmark.last_scroll_offset = START],
          effects |-> <<StartTts(new_page, 0), AutoScrollToCurrent, SaveBookmark>>]
    ELSE [app |-> a, effects |-> <<>>]

(* Walk of the track's cumulative durations in Message::Tick: Some(offset + i)
   for the first entry i (from 0) with elapsed <= acc, None past the last *)
RECURSIVE walk_track(_, _, _, _, _)
walk_track(track, pause, elapsed, i, acc) ==
    IF i > Len(track) THEN None
    ELSE LET acc1 == acc + track[i] + pause
         IN IF elapsed <= acc1 THEN Some(i - 1)
            ELSE walk_track(track, pause, elapsed, i + 1, acc1)

target_idx_no_pause(track, pause, elapsed, offset) ==
    LET r == walk_track(track, 0, elapsed, 1, 0)
    IN IF IsSome(r) THEN Some(offset + Unwrap(r)) ELSE None

target_idx(track, pause, elapsed, offset) ==
    LET r == walk_track(track, pause, elapsed, 1, 0)
    IN IF IsSome(r) THEN Some(offset + Unwrap(r)) ELSE None

-----------------------------------------------------------------------------
(* App::reduce, one operator per message: the new state and the effects *)

reduce_NextPage(a) == go_to_page(a, a.reader.current_page + 1)

reduce_PreviousPage(a) ==
    IF a.reader.current_page > 0
    THEN go_to_page(a, a.reader.current_page - 1)
    ELSE [app |-> a, effects |-> <<>>]

reduce_FontSizeChanged(a, size) ==
    LET clamped == clamp(size, MIN_FONT_SIZE, MAX_FONT_SIZE)
    IN IF clamped # a.config.font_size
       THEN [app |-> repaginate([a EXCEPT !.config.font_size = clamped]),
             effects |-> <<>>]
       ELSE [app |-> a, effects |-> <<>>]

reduce_LinesPerPageChanged(a, lines) ==
    LET clamped == clamp(lines, MIN_LINES_PER_PAGE, MAX_LINES_PER_PAGE)
    IN IF clamped # a.config.lines_per_page
       THEN
         LET cur == split_sentences(page_text(a, a.reader.current_page))
             anchor == IF Len(cur) > 0 THEN Some(cur[1]) ELSE None
             before == a.reader.current_page
             a1 == repaginate([a EXCEPT !.config.lines_per_page = clamped])
             found == IF IsSome(anchor)
                      THEN position(a1.reader.pages, Unwrap(anchor)) ELSE None
             a2 == IF IsSome(found)
                   THEN [a1 EXCEPT !.reader.current_page = Unwrap(found)] ELSE a1
         IN IF a2.reader.current_page # before
            THEN [app |-> [a2 EXCEPT !.bookmark.last_scroll_offset = START],
                  effects |-> <<SaveBookmark, SaveConfig>>]
            ELSE [app |-> a2, effects |-> <<SaveConfig>>]
       ELSE [app |-> a, effects |-> <<>>]

reduce_PauseAfterSentenceChanged(a, pause) ==
    LET clamped == clamp(pause, 0, 2)
    IN IF clamped # a.config.pause_after_sentence
       THEN [app |-> [a EXCEPT !.config.pause_after_sentence = clamped],
             effects |-> <<SaveConfig>> \o
                 (IF IsSome(a.tts.playback)
                  THEN <<StartTts(a.reader.current_page,
                                  unwrap_or(a.tts.current_sentence_idx, 0)),
                         AutoScrollToCurrent, SaveBookmark>>
                  ELSE <<>>)]
       ELSE [app |-> a, effects |-> <<>>]

reduce_SetTtsSpeed_keeps(a, speed) ==
    [app |-> [a EXCEPT !.config.tts_speed = clamp(speed, MIN_TTS_SPEED, MAX_TTS_SPEED)],
     effects |-> <<SaveConfig>>]

reduce_SetTtsSpeed(a, speed) ==
    [app |-> [a EXCEPT !.config.tts_speed = clamp(speed, MIN_TTS_SPEED, MAX_TTS_SPEED)],
     effects |-> (IF IsSome(a.tts.playback)
                  THEN <<StartTts(a.reader.current_page,
                                  unwrap_or(a.tts.current_sentence_idx, 0)),
                         AutoScrollToCurrent, SaveBookmark>>
                  ELSE <<>>) \o <<SaveConfig>>]

reduce_Play_restarts(a, now) ==
    [app |-> a,
     effects |-> <<StartTts(a.reader.current_page, 0),
                   AutoScrollToCurrent, SaveBookmark>>]

reduce_Play(a, now) ==
    IF IsSome(a.tts.playback)
    THEN [app |-> [a EXCEPT !.tts.playback = Some([paused |-> FALSE]),
                            !.tts.running = TRUE,
                            !.tts.started_at = Some(now)],
          effects |-> <<>>]
    ELSE [app |-> a,
          effects |-> <<StartTts(a.reader.current_page, 0),
                        AutoScrollToCurrent, SaveBookmark>>]

reduce_PlayFromPageStart(a) ==
    [app |-> a,
     effects |-> <<StartTts(a.reader.current_page, 0),
                   AutoScrollToCurrent, SaveBookmark>>]

reduce_PlayFromCursor(a, idx) ==
    [app |-> a,
     effects |-> <<StartTts(a.reader.current_page, idx),
                   AutoScrollToCurrent, SaveBookmark>>]

reduce_Pause_drops_time(a, now) ==
    [app |-> [a EXCEPT !.tts.running = FALSE, !.tts.started_at = None,
                       !.tts.playback = IF IsSome(a.tts.playback)
                                        THEN Some([paused |-> TRUE]) ELSE None],
     effects |-> <<>>]

reduce_Pause(a, now) ==
    LET a1 == IF IsSome(a.tts.playback)
              THEN [a EXCEPT !.tts.playback = Some([paused |-> TRUE])] ELSE a
        a2 == [a1 EXCEPT !.tts.running = FALSE]
    IN [app |-> IF IsSome(a2.tts.started_at)
                THEN [a2 EXCEPT !.tts.started_at = None,
                                !.tts.elapsed = a2.tts.elapsed +
                                    saturating_duration_since(now, Unwrap(a2.tts.started_at))]
                ELSE a2,
        effects |-> <<>>]

reduce_SeekForward_skips(a) ==
    LET next_idx == unwrap_or(a.tts.current_sentence_idx, 0) + 2
    IN IF next_idx < Len(a.tts.last_sentences)
       THEN [app |-> a,
             effects |-> <<StartTts(a.reader.current_page, next_idx),
                           AutoScrollToCurrent, SaveBookmark>>]
       ELSE IF a.reader.current_page + 1 < Len(a.reader.pages)
       THEN [app |-> [a EXCEPT !.reader.current_page = a.reader.current_page + 1,
                               !.bookmark.last_scroll_offset = START],
             effects |-> <<StartTts(a.reader.current_page + 1, 0), SaveConfig,
                           AutoScrollToCurrent, SaveBookmark>>]
       ELSE [app |-> a, effects |-> <<>>]

reduce_SeekForward(a) ==
    LET next_idx == unwrap_or(a.tts.current_sentence_idx, 0) + 1
    IN IF next_idx < Len(a.tts.last_sentences)
       THEN [app |-> a,
             effects |-> <<StartTts(a.reader.current_page, next_idx),
                           AutoScrollToCurrent, SaveBookmark>>]
       ELSE IF a.reader.current_page + 1 < Len(a.reader.pages)
       THEN [app |-> [a EXCEPT !.reader.current_page = a.reader.current_page + 1,
                               !.bookmark.last_scroll_offset = START],
             effects |-> <<StartTts(a.reader.current_page + 1, 0), SaveConfig,
                           AutoScrollToCurrent, SaveBookmark>>]
       ELSE [app |-> a, effects |-> <<>>]

reduce_SeekBackward_first(a) ==
    LET current_idx1 == unwrap_or(a.tts.current_sentence_idx, 0)
    IN IF current_idx1 > 0
       THEN [app |-> a,
             effects |-> <<StartTts(a.reader.current_page, current_idx1 - 1),
                           AutoScrollToCurrent, SaveBookmark>>]
       ELSE IF a.reader.current_page > 0
       THEN [app |-> [a EXCEPT !.reader.current_page = a.reader.current_page - 1,
                               !.bookmark.last_scroll_offset = START],
             effects |-> <<StartTts(a.reader.current_page - 1, 0), SaveConfig,
                           AutoScrollToCurrent, SaveBookmark>>]
       ELSE [app |-> a, effects |-> <<>>]

reduce_SeekBackward(a) ==
    LET current_idx == unwrap_or(a.tts.current_sentence_idx, 0)
    IN IF current_idx > 0
       THEN [app |-> a,
             effects |-> <<StartTts(a.reader.current_page, current_idx - 1),
                           AutoScrollToCurrent, SaveBookmark>>]
       ELSE IF a.reader.current_page > 0
       THEN LET page == a.reader.current_page - 1
                last_idx == saturating_sub(Len(split_sentences(page_text(a, page))), 1)
            IN [app |-> [a EXCEPT !.reader.current_page = page,
                                  !.bookmark.last_scroll_offset = START],
                effects |-> <<StartTts(page, last_idx), SaveConfig,
                              AutoScrollToCurrent, SaveBookmark>>]
       ELSE [app |-> a, effects |-> <<>>]

(* Message::Tick, a sentence of the track is being spoken *)
highlight_sentence_always(a, idx) ==
    LET clamped == Min(idx, saturating_sub(Len(a.tts.last_sentences), 1))
    IN [app |-> [a EXCEPT !.tts.current_sentence_idx = Some(clamped)],
        effects |-> <<AutoScrollToCurrent, SaveBookmark>>]

highlight_sentence(a, idx) ==
    LET clamped == Min(idx, saturating_sub(Len(a.tts.last_sentences), 1))
    IN IF Some(clamped) # a.tts.current_sentence_idx
       THEN [app |-> [a EXCEPT !.tts.current_sentence_idx = Some(clamped)],
             effects |-> <<AutoScrollToCurrent, SaveBookmark>>]
       ELSE [app |-> a, effects |-> <<>>]

finish_page_restart(a) ==
    IF a.reader.current_page + 1 < Len(a.reader.pages)
    THEN [app |-> [a EXCEPT !.bookmark.last_scroll_offset = START],
          effects |-> <<StopTts, StartTts(a.reader.current_page, 0),
                        AutoScrollToCurrent, SaveBookmark>>]
    ELSE [app |-> a, effects |-> <<StopTts>>]

finish_page_no_stop(a) ==
    IF a.reader.current_page + 1 < Len(a.reader.pages)
    THEN [app |-> [a EXCEPT !.reader.current_page = a.reader.current_page + 1,
                            !.bookmark.last_scroll_offset = START],
          effects |-> <<StopTts, StartTts(a.reader.current_page + 1, 0),
                        AutoScrollToCurrent, SaveBookmark>>]
    ELSE [app |-> a, effects |-> <<>>]

(* Message::Tick, elapsed is past the whole track *)
finish_page(a) ==
    IF a.reader.current_page + 1 < Len(a.reader.pages)
    THEN [app |-> [a EXCEPT !.reader.current_page = a.reader.current_page + 1,
                            !.bookmark.last_scroll_offset = START],
          effects |-> <<StopTts, StartTts(a.reader.current_page + 1, 0),
                        AutoScrollToCurrent, SaveBookmark>>]
    ELSE [app |-> a, effects |-> <<StopTts>>]

(* The elapsed playback time Message::Tick computes *)
tick_elapsed(a, now) ==
    a.tts.elapsed + saturating_duration_since(now, Unwrap(a.tts.started_at))

reduce_Tick(a, now) ==
    IF ~a.tts.running THEN [app |-> a, effects |-> <<>>]
    ELSE IF IsSome(a.tts.playback) /\ Unwrap(a.tts.playback).paused
    THEN [app |-> a, effects |-> <<>>]
    ELSE IF ~IsSome(a.tts.started_at) THEN [app |-> a, effects |-> <<>>]
    ELSE
      LET elapsed == tick_elapsed(a, now)
          target == target_idx(a.tts.track, a.config.pause_after_sentence,
                               elapsed, a.tts.sentence_offset)
      IN IF IsSome(target)
         THEN highlight_sentence(a, Unwrap(target))
         ELSE finish_page(a)

(* files: the durations of the prepared clips; play_ok: engine.play_files is Ok *)
stale_request_never(a, request_id) == FALSE

stale_request(a, request_id) == request_id # a.tts.request_id

stale_page_never(a, page) == FALSE

stale_page(a, page) == page # a.reader.current_page

empty_batch_keeps_idx(a) == [app |-> stop_playback(a), effects |-> <<>>]

empty_batch(a) ==
    [app |-> [stop_playback(a) EXCEPT !.tts.current_sentence_idx = None],
     effects |-> <<>>]

start_track_keeps_track(a, start_idx, files, now) ==
    LET off == Min(start_idx, saturating_sub(Len(a.tts.last_sentences), 1))
    IN [app |-> [a EXCEPT !.tts.playback = Some([paused |-> FALSE]),
                          !.tts.sentence_offset = off,
                          !.tts.current_sentence_idx = Some(off),
                          !.tts.elapsed = 0,
                          !.tts.started_at = Some(now),
                          !.tts.running = TRUE],
        effects |-> <<AutoScrollToCurrent>>]

start_track(a, start_idx, files, now) ==
    LET off == Min(start_idx, saturating_sub(Len(a.tts.last_sentences), 1))
    IN [app |-> [a EXCEPT !.tts.playback = Some([paused |-> FALSE]),
                          !.tts.track = files,
                          !.tts.sentence_offset = off,
                          !.tts.current_sentence_idx = Some(off),
                          !.tts.elapsed = 0,
                          !.tts.started_at = Some(now),
                          !.tts.running = TRUE],
        effects |-> <<AutoScrollToCurrent>>]

reduce_TtsPrepared(a, page, start_idx, request_id, files, play_ok, now) ==
    IF stale_request(a, request_id) THEN [app |-> a, effects |-> <<>>]
    ELSE IF stale_page(a, page) THEN [app |-> a, effects |-> <<>>]
    ELSE IF Len(files) = 0 THEN empty_batch(a)
    ELSE
      LET a1 == stop_playback(a)
      IN IF a1.tts.engine /\ play_ok
         THEN start_track(a1, start_idx, files, now)
         ELSE [app |-> a1, effects |-> <<>>]

-----------------------------------------------------------------------------
(* App::run_effect and App::update *)

run_effect(a, effect) ==
    CASE effect[1] = "StartTts" -> start_playback_from(a, effect[2], effect[3])
      [] effect[1] = "StopTts" -> [app |-> stop_playback(a), task |-> None]
      [] effect[1] = "ScrollTo" ->
            [app |-> [a EXCEPT !.bookmark.last_scroll_offset = effect[2]],
             task |-> None]
      [] effect[1] = "AutoScrollToCurrent" ->
            IF ~a.config.auto_scroll_tts THEN [app |-> a, task |-> None]
            ELSE IF IsSome(a.tts.current_sentence_idx)
            THEN LET offset == scroll_offset_for_sentence(
                                   a, Unwrap(a.tts.current_sentence_idx),
                                   Len(a.tts.last_sentences))
                 IN IF IsSome(offset)
                    THEN [app |-> [a EXCEPT !.bookmark.last_scroll_offset = Unwrap(offset)],
                          task |-> None]
                    ELSE [app |-> a, task |-> None]
            ELSE [app |-> a, task |-> None]
      [] OTHER -> [app |-> a, task |-> None]

RECURSIVE run_effects_reversed(_, _, _)
run_effects_reversed(a, effects, tasks) ==
    IF Len(effects) = 0 THEN [app |-> a, tasks |-> tasks]
    ELSE LET r == run_effect(a, effects[Len(effects)])
         IN run_effects_reversed(r.app, SubSeq(effects, 1, Len(effects) - 1),
                                 tasks \o r.task)

(* Runs the effects in emission order; tasks collects the spawned requests *)
RECURSIVE run_effects(_, _, _)
run_effects(a, effects, tasks) ==
    IF Len(effects) = 0 THEN [app |-> a, tasks |-> tasks]
    ELSE LET r == run_effect(a, Head(effects))
         IN run_effects(r.app, Tail(effects), tasks \o r.task)

(* r is the result of reduce: the state after every effect has run, the
   effects reduce emitted and the prepare tasks the effects spawned *)
update(r) ==
    LET e == run_effects(r.app, r.effects, <<>>)
    IN [app |-> e.app, effects |-> r.effects, tasks |-> e.tasks]

-----------------------------------------------------------------------------
(* Text normalizer (normalizer.rs) *)

(* A text is a sequence of characters, each a one-character string ch tagged
   with the index from of the display sentence it was read from (-1 for the
   characters of a marker inserted by join). BODY stands for the thirty
   characters between the two line feeds of the sentence marker: no pattern
   and no default replacement matches inside them. *)
LF == "\n"

BODY == "<<__EBUP_SENTENCE_BOUNDARY__>>"

SENTENCE_MARKER == <<LF, BODY, LF>>

(* The character U+0060, which a TLA+ string cannot hold *)
BACKTICK == "backtick"

Letters == {"a", "e", "i", "k", "m", "o", "p", "r", "s", "t", "w", "I", "S"}

Digits == {"0", "1", "2", "3", "4", "5", "6", "7", "8", "9"}

(* \s and char::is_whitespace *)
is_whitespace(c) == c \in {" ", "\t", LF}

(* [ \t\u{00A0}] *)
is_horizontal_ws(c) == c \in {" ", "\t"}

(* \d *)
is_digit(c) == c \in Digits

(* [,.;:!?] *)
is_punct(c) == c \in {",", ".", ";", ":", "!", "?"}

is_alphanumeric(c) == c \in Letters \/ c \in Digits \/ c = BODY

(* str::chars().count() *)
chars_count(t) ==
    Cardinality({i \in 1..Len(t) : t[i].ch # BODY})
        + 30 * Cardinality({i \in 1..Len(t) : t[i].ch = BODY})

(* The characters of a text without their tags *)
chars(t) == [i \in 1..Len(t) |-> t[i].ch]

(* The display sentence of index k as read from the page *)
read(s, k) == [i \in 1..Len(s) |-> [ch |-> s[i], from |-> k]]

(* The first position from i on that holds character c, 0 if there is none *)
find(t, c, i) ==
    LET S == {j \in i..Len(t) : t[j].ch = c}
    IN IF S = {} THEN 0 ELSE CHOOSE j \in S : \A k \in S : j <= k

(* The last position of the run of whitespace that starts at i *)
whitespace_end(t, i) ==
    CHOOSE j \in i..Len(t) :
        /\ \A k \in i..j : is_whitespace(t[k].ch)
        /\ j = Len(t) \/ ~is_whitespace(t[j + 1].ch)

horizontal_ws_end(t, i) ==
    CHOOSE j \in i..Len(t) :
        /\ \A k \in i..j : is_horizontal_ws(t[k].ch)
        /\ j = Len(t) \/ ~is_horizontal_ws(t[j + 1].ch)

(* \s*\d+(?:\s*,\s*\d+)*\s* matches t[i..j] entirely; state is the part of
   the pattern the scan is in *)
RECURSIVE numeric_list(_, _, _, _)
numeric_list(t, i, j, state) ==
    IF i > j THEN state \in {"digits", "after"}
    ELSE LET c == t[i].ch
         IN CASE state = "item" ->
                   IF is_whitespace(c) THEN numeric_list(t, i + 1, j, "item")
                   ELSE is_digit(c) /\ numeric_list(t, i + 1, j, "digits")
              [] state = "digits" ->
                   IF is_digit(c) THEN numeric_list(t, i + 1, j, "digits")
                   ELSE IF is_whitespace(c) THEN numeric_list(t, i + 1, j, "after")
                   ELSE c = "," /\ numeric_list(t, i + 1, j, "item")
              [] OTHER ->
                   IF is_whitespace(c) THEN numeric_list(t, i + 1, j, "after")
                   ELSE c = "," /\ numeric_list(t, i + 1, j, "item")

(* The last position of the match of the pattern re that starts at position
   i of t, 0 if none starts there *)
match_end(re, t, i) ==
    LET c == t[i].ch
    IN CASE re = "RE_MARKDOWN_LINK" ->
              LET j == find(t, "]", i + 1)
                  k == find(t, ")", j + 2)
              IN IF c = "[" /\ j >= i + 2 /\ j < Len(t) /\ t[j + 1].ch = "("
                 THEN k ELSE 0
         [] re = "RE_INLINE_CODE" ->
              LET j == find(t, BACKTICK, i + 1)
              IN IF c = BACKTICK /\ j >= i + 2 THEN j ELSE 0
         [] re = "RE_NUMERIC_BRACKET_CITE" ->
              LET j == find(t, "]", i + 1)
              IN IF c = "[" /\ j > 0 /\ numeric_list(t, i + 1, j - 1, "item")
                 THEN j ELSE 0
         [] re = "RE_PARENTHETICAL_NUMERIC" ->
              LET j == find(t, ")", i + 1)
              IN IF c = "(" /\ j > 0 /\ numeric_list(t, i + 1, j - 1, "item")
                 THEN j ELSE 0
         [] re = "RE_SQUARE_BRACKET_BLOCK" ->
              IF c = "[" THEN find(t, "]", i + 1) ELSE 0
         [] re = "RE_CURLY_BRACKET_BLOCK" ->
              IF c = "{" THEN find(t, "}", i + 1) ELSE 0
         [] re = "RE_HORIZONTAL_WS" ->
              IF is_horizontal_ws(c) THEN horizontal_ws_end(t, i) ELSE 0
         [] OTHER ->
              LET j == IF is_whitespace(c) THEN whitespace_end(t, i) ELSE 0
              IN IF j > 0 /\ j < Len(t) /\ is_punct(t[j + 1].ch) THEN j + 1 ELSE 0

(* What replace_all puts in place of the match t[i..e] of re: the captured
   group for "$1", one space for " " *)
replacement(re, t, i, e) ==
    CASE re = "RE_MARKDOWN_LINK" -> SubSeq(t, i + 1, find(t, "]", i + 1) - 1)
      [] re = "RE_INLINE_CODE" -> SubSeq(t, i + 1, e - 1)
      [] re = "RE_SPACE_BEFORE_PUNCT" -> <<t[e]>>
      [] OTHER -> <<[ch |-> " ", from |-> t[i].from]>>

(* Regex::replace_all from position i on: leftmost matches, not overlapping *)
RECURSIVE replace_all(_, _, _)
replace_all(re, t, i) ==
    IF i > Len(t) THEN <<>>
    ELSE LET e == match_end(re, t, i)
         IN IF e > 0
            THEN replacement(re, t, i, e) \o replace_all(re, t, e + 1)
            ELSE <<t[i]>> \o replace_all(re, t, i + 1)

(* The pattern pat occurs in t at position i *)
occurs(t, pat, i) ==
    /\ i + Len(pat) - 1 <= Len(t)
    /\ \A k \in 1..Len(pat) : t[i + k - 1].ch = pat[k]

(* str::replace of a non-empty pattern from position i on *)
RECURSIVE replace(_, _, _, _)
replace(t, pat, to, i) ==
    IF i > Len(t) THEN <<>>
    ELSE IF occurs(t, pat, i)
    THEN read(to, t[i].from) \o replace(t, pat, to, i + Len(pat))
    ELSE <<t[i]>> \o replace(t, pat, to, i + 1)

(* str::trim *)
trim(t) ==
    LET S == {i \in 1..Len(t) : ~is_whitespace(t[i].ch)}
    IN IF S = {} THEN <<>>
       ELSE SubSeq(t, CHOOSE i \in S : \A k \in S : i <= k,
                      CHOOSE j \in S : \A k \in S : j >= k)

(* str::split(SENTENCE_MARKER): the parts of t from position start on, the
   scan being at position i *)
RECURSIVE split(_, _, _)
split(t, i, start) ==
    IF i > Len(t) THEN <<SubSeq(t, start, Len(t))>>
    ELSE IF occurs(t, SENTENCE_MARKER, i)
    THEN <<SubSeq(t, start, i - 1)>>
            \o split(t, i + Len(SENTENCE_MARKER), i + Len(SENTENCE_MARKER))
    ELSE split(t, i + 1, start)

(* [String]::join(SENTENCE_MARKER) of the sentences from index k on *)
RECURSIVE join(_, _)
join(sentences, k) ==
    IF k > Len(sentences) THEN <<>>
    ELSE IF k = Len(sentences) THEN sentences[k]
    ELSE sentences[k] \o read(SENTENCE_MARKER, -1) \o join(sentences, k + 1)

(* NormalizerConfig::default *)
DefaultConfig ==
    [enabled |-> TRUE,
     mode |-> "Page",
     collapse_whitespace |-> TRUE,
     remove_space_before_punctuation |-> TRUE,
     strip_inline_code |-> TRUE,
     strip_markdown_links |-> TRUE,
     drop_numeric_bracket_citations |-> TRUE,
     drop_parenthetical_numeric_citations |-> TRUE,
     drop_square_bracket_text |-> TRUE,
     drop_curly_brace_text |-> TRUE,
     min_sentence_chars |-> 2,
     require_alphanumeric |-> TRUE,
     replacements |-> <<[from |-> <<"#">>, to |-> <<" ">>]>>,
     drop_tokens |-> <<>>]

(* entries.sort_by_key(|(from, _)| Reverse(from.len())): the entries of
   length l, then the shorter ones, each group in map order *)
RECURSIVE sorted_entries(_, _)
sorted_entries(entries, l) ==
    IF l = 0 THEN <<>>
    ELSE LET has_len(e) == Len(e.from) = l
         IN SelectSeq(entries, has_len) \o sorted_entries(entries, l - 1)

RECURSIVE replace_entries(_, _, _)
replace_entries(t, entries, k) ==
    IF k > Len(entries) THEN t
    ELSE replace_entries(replace(t, entries[k].from, entries[k].to, 1), entries, k + 1)

RECURSIVE drop_each(_, _, _)
drop_each(t, tokens, k) ==
    IF k > Len(tokens) THEN t
    ELSE IF tokens[k] = <<>> THEN drop_each(t, tokens, k + 1)
    ELSE drop_each(replace(t, tokens[k], <<" ">>, 1), tokens, k + 1)

step_skipped(on, re, t) == t

(* One step of clean_text_core: replace_all of the pattern re if the
   configuration switches it on *)
step(on, re, t) == IF on THEN replace_all(re, t, 1) ELSE t

(* The length of the longest key of the replacements *)
longest(entries) ==
    LET lengths == {0} \cup {Len(entries[k].from) : k \in 1..Len(entries)}
    IN CHOOSE l \in lengths : \A m \in lengths : l >= m

(* The steps of clean_text_core on the patterns, the innermost first *)
strip_and_drop(config, input) ==
    step(config.drop_curly_brace_text, "RE_CURLY_BRACKET_BLOCK",
      step(config.drop_square_bracket_text, "RE_SQUARE_BRACKET_BLOCK",
        step(config.drop_parenthetical_numeric_citations, "RE_PARENTHETICAL_NUMERIC",
          step(config.drop_numeric_bracket_citations, "RE_NUMERIC_BRACKET_CITE",
            step(config.strip_inline_code, "RE_INLINE_CODE",
              step(config.strip_markdown_links, "RE_MARKDOWN_LINK", input))))))

(* The replacements, longest key first, then the drop tokens *)
replace_and_drop(config, text) ==
    drop_each(
        replace_entries(text,
            sorted_entries(config.replacements, longest(config.replacements)), 1),
        config.drop_tokens, 1)

(* TextNormalizer::clean_text_core *)
clean_text_core(config, input) ==
    trim(
      step(config.remove_space_before_punctuation, "RE_SPACE_BEFORE_PUNCT",
        step(config.collapse_whitespace, "RE_HORIZONTAL_WS",
          replace_and_drop(config, strip_and_drop(config, input)))))

finalize_sentence_any_text(config, sentence) ==
    LET trimmed == trim(sentence)
    IN IF trimmed = <<>> THEN None
       ELSE IF chars_count(trimmed) < Max(config.min_sentence_chars, 1) THEN None
       ELSE Some(trimmed)

(* TextNormalizer::finalize_sentence *)
finalize_sentence(config, sentence) ==
    LET trimmed == trim(sentence)
    IN IF trimmed = <<>> THEN None
       ELSE IF /\ config.require_alphanumeric
               /\ ~\E i \in 1..Len(trimmed) : is_alphanumeric(trimmed[i].ch)
       THEN None
       ELSE IF chars_count(trimmed) < Max(config.min_sentence_chars, 1) THEN None
       ELSE Some(trimmed)

(* The Sentence mode and the fallback: every sentence cleaned on its own *)
clean_each(config, display_sentences) ==
    [k \in 1..Len(display_sentences) |-> clean_text_core(config, display_sentences[k])]

(* The marker-delimited segments of the cleaned marker-joined page *)
split_cleaned(config, display_sentences) ==
    split(clean_text_core(config, join(display_sentences, 1)), 1, 1)

(* TextNormalizer::normalize_page_mode *)
normalize_page_mode_no_fallback(config, display_sentences) ==
    split_cleaned(config, display_sentences)

normalize_page_mode(config, display_sentences) ==
    LET parts == split_cleaned(config, display_sentences)
    IN IF Len(parts) = Len(display_sentences)
       THEN parts
       ELSE clean_each(config, display_sentences)

(* The loop of plan_page from display_idx on *)
plan_loop_display_idx(config, cleaned_sentences, display_idx, plan) ==
    [audio_sentences |->
         SelectSeq([k \in 1..Len(cleaned_sentences) |->
                        unwrap_or(finalize_sentence(config, cleaned_sentences[k]), <<>>)],
                   LAMBDA s : s # <<>>),
     display_to_audio |->
         [k \in 1..Len(cleaned_sentences) |->
              IF IsSome(finalize_sentence(config, cleaned_sentences[k]))
              THEN Some(k - 1) ELSE None],
     audio_to_display |->
         SelectSeq([k \in 1..Len(cleaned_sentences) |-> k - 1],
                   LAMBDA d : IsSome(finalize_sentence(config, cleaned_sentences[d + 1])))]

RECURSIVE plan_loop(_, _, _, _)
plan_loop(config, cleaned_sentences, display_idx, plan) ==
    IF display_idx >= Len(cleaned_sentences) THEN plan
    ELSE LET cleaned == finalize_sentence(config, cleaned_sentences[display_idx + 1])
             audio_idx == Len(plan.audio_sentences)
         IN IF IsSome(cleaned)
            THEN plan_loop(config, cleaned_sentences, display_idx + 1,
                     [audio_sentences |-> Append(plan.audio_sentences, Unwrap(cleaned)),
                      display_to_audio |->
                          [plan.display_to_audio EXCEPT ![display_idx + 1] = Some(audio_idx)],
                      audio_to_display |-> Append(plan.audio_to_display, display_idx)])
            ELSE plan_loop(config, cleaned_sentences, display_idx + 1, plan)

plan_page_warm(config, display_sentences) ==
    IF calls # <<>>
    THEN [audio_sentences |-> display_sentences,
          display_to_audio |-> [k \in 1..Len(display_sentences) |-> Some(k - 1)],
          audio_to_display |-> [k \in 1..Len(display_sentences) |-> k - 1]]
    ELSE plan_loop(config, clean_each(config, display_sentences), 0,
             [audio_sentences |-> <<>>,
              display_to_audio |-> [k \in 1..Len(display_sentences) |-> None],
              audio_to_display |-> <<>>])

plan_page_always_cleans(config, display_sentences) ==
    LET cleaned_sentences ==
            IF config.mode = "Page"
            THEN normalize_page_mode(config, display_sentences)
            ELSE clean_each(config, display_sentences)
    IN plan_loop(config, cleaned_sentences, 0,
           [audio_sentences |-> <<>>,
            display_to_audio |-> [k \in 1..Len(cleaned_sentences) |-> None],
            audio_to_display |-> <<>>])

(* TextNormalizer::plan_page; indices are counted from 0 as in the code *)
plan_page(config, display_sentences) ==
    IF display_sentences = <<>>
    THEN [audio_sentences |-> <<>>, display_to_audio |-> <<>>, audio_to_display |-> <<>>]
    ELSE IF ~config.enabled
    THEN [audio_sentences |-> display_sentences,
          display_to_audio |-> [k \in 1..Len(display_sentences) |-> Some(k - 1)],
          audio_to_display |-> [k \in 1..Len(display_sentences) |-> k - 1]]
    ELSE LET cleaned_sentences ==
                 IF config.mode = "Page"
                 THEN normalize_page_mode(config, display_sentences)
                 ELSE clean_each(config, display_sentences)
         IN plan_loop(config, cleaned_sentences, 0,
                [audio_sentences |-> <<>>,
                 display_to_audio |-> [k \in 1..Len(cleaned_sentences) |-> None],
                 audio_to_display |-> <<>>])

-----------------------------------------------------------------------------
(* The state machine *)

Range(f) == {f[i] : i \in 1..Len(f)}

RECURSIVE SeqsUpTo(_, _)
SeqsUpTo(S, n) ==
    IF n = 0 THEN {<<>>}
    ELSE LET shorter == SeqsUpTo(S, n - 1)
         IN shorter \cup {Append(q, e) : q \in {t \in shorter : Len(t) = n - 1}, e \in S}

(* Values the user interface can send with the configuration messages *)
FontSizeInputs == (MIN_FONT_SIZE - 1)..(MAX_FONT_SIZE + 1)
LinesInputs == (MIN_LINES_PER_PAGE - 1)..(MAX_LINES_PER_PAGE + 1)
PauseInputs == {0, 1}
CursorInputs == {1, 2}
SpeedInputs == {MIN_TTS_SPEED - 1, MIN_TTS_SPEED}

(* Results prepare_batch can deliver for n sentences handed to it from
   start_idx on: the durations of at most one clip per sentence; empty on error *)
Batches(n, start_idx) == SeqsUpTo(Durations, saturating_sub(n, start_idx))

(* The App built at startup from the loaded configuration *)
bootstrap(engine, font_size, lines_per_page, pause) ==
    repaginate(
      [reader |-> [pages |-> <<>>, current_page |-> 0],
       config |-> [font_size |-> font_size,
                   lines_per_page |-> lines_per_page,
                   pause_after_sentence |-> pause,
                   tts_speed |-> MIN_TTS_SPEED,
                   auto_scroll_tts |-> TRUE,
                   center_spoken_sentence |-> FALSE],
       tts |-> [engine |-> engine,
                request_id |-> 0,
                sentence_offset |-> 0,
                current_sentence_idx |-> None,
                elapsed |-> 0,
                started_at |-> None,
                running |-> FALSE,
                track |-> <<>>,
                playback |-> None,
                last_sentences |-> <<>>],
       bookmark |-> [last_scroll_offset |-> START]])

Init ==
    /\ \E engine \in BOOLEAN,
          font_size \in {MIN_FONT_SIZE},
          lines_per_page \in MIN_LINES_PER_PAGE..MAX_LINES_PER_PAGE,
          pause \in PauseInputs :
          app = bootstrap(engine, font_size, lines_per_page, pause)
    /\ inflight = {}
    /\ issued = <<>>
    /\ clock = 0
    /\ tick_queue = <<>>
    /\ last = [msg |-> "bootstrap", arg |-> <<>>, effects |-> <<>>,
              repeat |-> FALSE, before |-> <<>>]
    /\ normalizer = [config |-> DefaultConfig]
    /\ planning = [display_sentences |-> <<>>, plan |-> None]
    /\ calls = <<>>

subscription_always(a) == TRUE

subscription_never(a) == FALSE

(* App::subscription: ticks are produced only while running *)
subscription(a) == a.tts.running

(* Whether reducing the TtsPrepared message reaches engine.play_files *)
calls_play_files(a, req, files) ==
    /\ req.request_id = a.tts.request_id
    /\ req.page = a.reader.current_page
    /\ Len(files) > 0
    /\ a.tts.engine

(* The Message::TtsPrepared a prepare task sends when it completes *)
message(task) ==
    [page |-> task.page, start_idx |-> task.start_idx, request_id |-> task.request_id]

(* One App::update: reduce, then every effect; the spawned tasks go in flight *)
Deliver(r, msg, arg, done) ==
    LET u == update(r)
    IN /\ Len(issued) + Len(u.tasks) <= MaxRequests
       /\ app' = u.app
       /\ inflight' = (inflight \ done) \cup
              {[req |-> message(u.tasks[i]), seq |-> Len(issued) + i,
                sentences |-> u.tasks[i].sentences] : i \in 1..Len(u.tasks)}
       /\ issued' = issued \o [i \in 1..Len(u.tasks) |-> u.tasks[i].request_id]
       /\ last' = [msg |-> msg, arg |-> arg, effects |-> u.effects,
                   repeat |-> (msg = "Tick" /\ last.msg = msg /\ last.arg = arg),
                   before |-> IF msg = "Tick" THEN last.effects ELSE <<>>]
       /\ UNCHANGED <<normalizer, planning, calls>>

Step(r, msg, arg) == Deliver(r, msg, arg, {})

NextPage ==
    /\ Step(reduce_NextPage(app), "NextPage", <<>>)
    /\ UNCHANGED <<clock, tick_queue>>

PreviousPage ==
    /\ Step(reduce_PreviousPage(app), "PreviousPage", <<>>)
    /\ UNCHANGED <<clock, tick_queue>>

FontSizeChanged ==
    /\ \E size \in FontSizeInputs :
          Step(reduce_FontSizeChanged(app, size), "FontSizeChanged", <<size>>)
    /\ UNCHANGED <<clock, tick_queue>>

LinesPerPageChanged ==
    /\ \E lines \in LinesInputs :
          Step(reduce_LinesPerPageChanged(app, lines), "LinesPerPageChanged", <<lines>>)
    /\ UNCHANGED <<clock, tick_queue>>

PauseAfterSentenceChanged ==
    /\ \E pause \in PauseInputs :
          Step(reduce_PauseAfterSentenceChanged(app, pause),
               "PauseAfterSentenceChanged", <<pause>>)
    /\ UNCHANGED <<clock, tick_queue>>

SetTtsSpeed ==
    /\ \E speed \in SpeedInputs :
          Step(reduce_SetTtsSpeed(app, speed), "SetTtsSpeed", <<speed>>)
    /\ UNCHANGED <<clock, tick_queue>>

Play ==
    /\ Step(reduce_Play(app, clock), "Play", <<>>)
    /\ UNCHANGED <<clock, tick_queue>>

PlayFromPageStart ==
    /\ Step(reduce_PlayFromPageStart(app), "PlayFromPageStart", <<>>)
    /\ UNCHANGED <<clock, tick_queue>>

PlayFromCursor ==
    /\ \E idx \in CursorInputs :
          Step(reduce_PlayFromCursor(app, idx), "PlayFromCursor", <<idx>>)
    /\ UNCHANGED <<clock, tick_queue>>

Pause ==
    /\ Step(reduce_Pause(app, clock), "Pause", <<>>)
    /\ UNCHANGED <<clock, tick_queue>>

SeekForward ==
    /\ Step(reduce_SeekForward(app), "SeekForward", <<>>)
    /\ UNCHANGED <<clock, tick_queue>>

SeekBackward ==
    /\ Step(reduce_SeekBackward(app), "SeekBackward", <<>>)
    /\ UNCHANGED <<clock, tick_queue>>

(* time::every fires while the subscription exists *)
TimerFire ==
    /\ subscription(app)
    /\ Len(tick_queue) < MaxTicksQueued
    /\ tick_queue' = Append(tick_queue, clock)
    /\ UNCHANGED <<app, inflight, issued, clock, last, normalizer, planning, calls>>

Tick ==
    /\ Len(tick_queue) > 0
    /\ Step(reduce_Tick(app, Head(tick_queue)), "Tick", <<Head(tick_queue)>>)
    /\ tick_queue' = Tail(tick_queue)
    /\ UNCHANGED clock

(* A prepare task completes and its result is reduced *)
TtsPrepared ==
    /\ \E m \in inflight :
        \E files \in Batches(m.sentences, m.req.start_idx) :
        \E play_ok \in IF calls_play_files(app, m.req, files) THEN BOOLEAN ELSE {TRUE} :
          Deliver(reduce_TtsPrepared(app, m.req.page, m.req.start_idx,
                                     m.req.request_id, files, play_ok, clock),
                  "TtsPrepared", <<m>>, {m})
    /\ UNCHANGED <<clock, tick_queue>>

(* Only differences of instants are ever read, so the clock is followed
   while a session holds a start instant; the tick period (50 ms) is far below
   one clock unit, so a queued tick is reduced before the clock moves *)
Advance ==
    /\ IsSome(app.tts.started_at)
    /\ tick_queue = <<>>
    /\ clock < MaxTime
    /\ clock' = clock + 1
    /\ UNCHANGED <<app, inflight, issued, tick_queue, last, normalizer, planning, calls>>

Next ==
    \/ NextPage
    \/ PreviousPage
    \/ Play
    \/ PlayFromPageStart
    \/ PlayFromCursor
    \/ Pause
    \/ SeekForward
    \/ SeekBackward
    \/ TimerFire
    \/ Tick
    \/ TtsPrepared
    \/ Advance

Spec == Init /\ [][Next]_vars

(* The configuration messages among navigation and playback control, with the
   clock at rest *)
NextConfig ==
    \/ FontSizeChanged
    \/ LinesPerPageChanged
    \/ PauseAfterSentenceChanged
    \/ SetTtsSpeed
    \/ NextPage
    \/ PreviousPage
    \/ Play
    \/ Pause
    \/ TtsPrepared

SpecConfig == Init /\ [][NextConfig]_vars

(* A long-lived application: REQUEST_ID_MAX - 1 prepare requests have been
   issued and answered, and the application is idle on the first page *)
InitWrap ==
    /\ \E engine \in BOOLEAN,
          font_size \in {MIN_FONT_SIZE},
          lines_per_page \in MIN_LINES_PER_PAGE..MAX_LINES_PER_PAGE,
          pause \in PauseInputs :
          app = [bootstrap(engine, font_size, lines_per_page, pause)
                     EXCEPT !.tts.request_id = REQUEST_ID_MAX - 1]
    /\ inflight = {}
    /\ issued = <<>>
    /\ clock = 0
    /\ tick_queue = <<>>
    /\ last = [msg |-> "bootstrap", arg |-> <<>>, effects |-> <<>>,
              repeat |-> FALSE, before |-> <<>>]
    /\ normalizer = [config |-> DefaultConfig]
    /\ planning = [display_sentences |-> <<>>, plan |-> None]
    /\ calls = <<>>

SpecWrap == InitWrap /\ [][Next]_vars

(* Display sentences a page can hold: plain, dropped, cited, bracketed across
   sentences, with the marker's own text, with markup *)
Sentences ==
    {<<"a", ".">>,
     <<".">>,
     <<>>,
     <<"a">>,
     <<"[", "1", "]">>,
     <<"a", " ", "[", "1", ",", " ", "2", "]", ".">>,
     <<"[", "a">>,
     <<"a", "]">>,
     <<"a">> \o SENTENCE_MARKER,
     <<"#", "a">>,
     <<BACKTICK, "a">>,
     <<"a", BACKTICK>>,
     <<"[", "a", "]", "(", "a", ")">>,
     <<"{", "a", "}", "(", "1", ")">>,
     <<" ", "a", " ", " ", ",", "a", " ">>}

MaxSentences == 2

(* The pages of at most MaxSentences display sentences *)
Pages ==
    {[k \in 1..Len(page) |-> read(page[k], k - 1)] : page \in SeqsUpTo(Sentences, MaxSentences)}

Flags ==
    {"enabled", "collapse_whitespace", "remove_space_before_punctuation",
     "strip_inline_code", "strip_markdown_links", "drop_numeric_bracket_citations",
     "drop_parenthetical_numeric_citations", "drop_square_bracket_text",
     "drop_curly_brace_text", "require_alphanumeric"}

(* Configurations conf/normalizer.toml can hold: the default, each switch
   off, no minimum length, a drop token instead of the replacement; each in
   both modes *)
Configs ==
    LET page_mode ==
            {DefaultConfig}
                \cup {[DefaultConfig EXCEPT ![f] = FALSE] : f \in Flags}
                \cup {[DefaultConfig EXCEPT !.min_sentence_chars = 0],
                      [DefaultConfig EXCEPT !.replacements = <<>>,
                                            !.drop_tokens = <<<<>>, <<"#">>>>]}
    IN page_mode \cup {[c EXCEPT !.mode = "Sentence"] : c \in page_mode}

(* A normalizer loaded with some configuration, about to plan some page *)
InitNormalizer ==
    /\ app = bootstrap(TRUE, MIN_FONT_SIZE, MAX_LINES_PER_PAGE, 0)
    /\ inflight = {}
    /\ issued = <<>>
    /\ clock = 0
    /\ tick_queue = <<>>
    /\ last = [msg |-> "bootstrap", arg |-> <<>>, effects |-> <<>>,
              repeat |-> FALSE, before |-> <<>>]
    /\ normalizer \in {[config |-> c] : c \in Configs}
    /\ planning \in {[display_sentences |-> page, plan |-> None] : page \in Pages}
    /\ calls = <<>>

(* TextNormalizer::plan_page is called on the display sentences *)
PlanPage ==
    /\ planning' = [planning EXCEPT
           !.plan = Some(plan_page(normalizer.config, planning.display_sentences))]
    /\ UNCHANGED <<app, inflight, issued, clock, tick_queue, last, normalizer, calls>>

SpecNormalizer == InitNormalizer /\ [][PlanPage]_vars

(* The page ["See prior work [12, 13].", "It matters."] *)
ExamplePage ==
    <<<<"S", "e", "e", " ", "p", "r", "i", "o", "r", " ", "w", "o",
        "r", "k", " ", "[", "1", "2", ",", " ", "1", "3", "]", ".">>,
      <<"I", "t", " ", "m", "a", "t", "t", "e", "r", "s", ".">>>>

(* Pages of the book plan_page is called on one after the other *)
ReplanPages ==
    {[k \in 1..Len(page) |-> read(page[k], k - 1)] :
        page \in {ExamplePage,
                  <<<<"#", "a">>, <<".">>>>,
                  <<<<"a", " ", "[", "1", ",", " ", "2", "]", ".">>>>,
                  <<<<"[", "a">>, <<"a", "]">>>>}}

MaxPlans == 3

(* A normalizer loaded with some configuration, no page planned yet *)
InitReplan ==
    /\ app = bootstrap(TRUE, MIN_FONT_SIZE, MAX_LINES_PER_PAGE, 0)
    /\ inflight = {}
    /\ issued = <<>>
    /\ clock = 0
    /\ tick_queue = <<>>
    /\ last = [msg |-> "bootstrap", arg |-> <<>>, effects |-> <<>>,
              repeat |-> FALSE, before |-> <<>>]
    /\ normalizer \in {[config |-> c] : c \in Configs}
    /\ planning = [display_sentences |-> <<>>, plan |-> None]
    /\ calls = <<>>

(* TextNormalizer::plan_page is called on a page, after the calls before it *)
Replan ==
    /\ Len(calls) < MaxPlans
    /\ \E page \in ReplanPages :
          LET returned == plan_page(normalizer.config, page)
          IN /\ planning' = [display_sentences |-> page, plan |-> Some(returned)]
             /\ calls' = Append(calls, [display_sentences |-> page, plan |-> returned])
    /\ UNCHANGED <<app, inflight, issued, clock, tick_queue, last, normalizer>>

SpecReplan == InitReplan /\ [][Replan]_vars

-----------------------------------------------------------------------------
(* Properties *)

(* What App::update makes of the TtsPrepared message of in-flight task m
   when the task delivers files *)
prepared_in(a, m, files, play_ok) ==
    update(reduce_TtsPrepared(a, m.req.page, m.req.start_idx, m.req.request_id,
                              files, play_ok, clock))

prepared(m, files, play_ok) == prepared_in(app, m, files, play_ok)

results(m) == Batches(m.sentences, m.req.start_idx)

(* The narration state of a session *)
narration(a) ==
    [track |-> a.tts.track, sentence_offset |-> a.tts.sentence_offset,
     current_sentence_idx |-> a.tts.current_sentence_idx,
     elapsed |-> a.tts.elapsed, started_at |-> a.tts.started_at,
     running |-> a.tts.running, playback |-> a.tts.playback]

(* The update started a track from the files *)
started(u, files) ==
    /\ u.app.tts.running
    /\ u.app.tts.track = files
    /\ u.effects = <<AutoScrollToCurrent>>

(* C1: a TtsPrepared whose request_id differs from the session's request_id
   changes nothing (narration state, current page and all the rest of the
   state) and emits no effect, whatever files it carries. *)
C1_StaleRequestDiscarded ==
    \A m \in inflight : \A files \in results(m), play_ok \in BOOLEAN :
        m.req.request_id # app.tts.request_id =>
            LET u == prepared(m, files, play_ok)
            IN /\ narration(u.app) = narration(app)
               /\ u.app.reader.current_page = app.reader.current_page
               /\ u.app = app
               /\ u.effects = <<>>
               /\ u.tasks = <<>>

(* a stale result has been reduced while a session was playing *)
C1_Witness ==
    /\ last.msg = "TtsPrepared"
    /\ last.arg[1].req.request_id # app.tts.request_id
    /\ last.effects = <<>>
    /\ app.tts.running
    /\ Len(app.tts.track) > 0

(* C2: whenever it arrives, a result starts a track only if it answers the
   most recently issued prepare request. *)
C2_OnlyLatestAccepted ==
    \A m \in inflight : \A files \in results(m) \ {<<>>} :
        started(prepared(m, files, TRUE), files) => m.seq = Len(issued)

(* the result of the second request was accepted while the result of the
   first, superseded request is still to arrive *)
C2_Witness ==
    /\ last.msg = "TtsPrepared"
    /\ last.effects = <<AutoScrollToCurrent>>
    /\ last.arg[1].seq = 2
    /\ app.tts.running
    /\ \E m \in inflight : m.seq = 1

(* C3: a TtsPrepared with the session's request_id but another page than the
   displayed one changes nothing and emits no effect. *)
C3_StalePageDiscarded ==
    \A m \in inflight : \A files \in results(m), play_ok \in BOOLEAN :
        (m.req.request_id = app.tts.request_id /\ m.req.page # app.reader.current_page) =>
            LET u == prepared(m, files, play_ok)
            IN /\ u.app = app
               /\ u.effects = <<>>
               /\ u.tasks = <<>>

(* a result with the current request_id was reduced on another page *)
C3_Witness ==
    /\ last.msg = "TtsPrepared"
    /\ last.arg[1].req.request_id = app.tts.request_id
    /\ last.arg[1].req.page # app.reader.current_page
    /\ last.effects = <<>>

(* The page on display: its number and its text *)
displayed(a) == <<a.reader.current_page, page_text(a, a.reader.current_page)>>

(* Every result still to arrive is rejected in state a *)
all_rejected(a) ==
    \A m \in inflight : \A files \in results(m), play_ok \in BOOLEAN :
        LET v == prepared_in(a, m, files, play_ok)
        IN v.app = a /\ v.effects = <<>>

(* The session is stopped and the results requested earlier are rejected
   after the update of reduce result r, if it changed the page on display *)
stopped_after(r) ==
    LET u == update(r)
    IN displayed(u.app) # displayed(app) =>
          /\ ~u.app.tts.running
          /\ all_rejected(u.app)

(* C4: after NextPage, PreviousPage, or a font-size or lines-per-page change
   that re-paginates, the session prepared for the page shown before is
   stopped and a batch requested before the change is rejected. *)
C4_StoppedAfterPageChange ==
    /\ stopped_after(reduce_NextPage(app))
    /\ stopped_after(reduce_PreviousPage(app))
    /\ \A size \in FontSizeInputs : stopped_after(reduce_FontSizeChanged(app, size))
    /\ \A lines \in LinesInputs : stopped_after(reduce_LinesPerPageChanged(app, lines))
(* C5 as stated: every prepare request carries a request_id strictly greater
   than that of every earlier request, for any number of requests. *)
C5_RequestIdsStrictlyIncrease ==
    \A i, j \in 1..Len(issued) : i < j => issued[i] < issued[j]

(* C5: every prepare request carries the request_id of the request before it
   plus one, wrapping from the largest id to 0; ids are strictly increasing
   over any run of requests that does not pass the largest id, and no two of
   fewer than 2^RequestIdBits requests share an id. *)
C5_RequestIdsIncreaseUntilWrap ==
    /\ \A i \in 1..(Len(issued) - 1) :
           issued[i + 1] = IF issued[i] = REQUEST_ID_MAX THEN 0 ELSE issued[i] + 1
    /\ \A i, j \in 1..Len(issued) :
           (i < j /\ \A k \in i..(j - 1) : issued[k] # REQUEST_ID_MAX)
               => issued[i] < issued[j]
    /\ \A i, j \in 1..Len(issued) : i # j => issued[i] # issued[j]
    /\ \A m \in inflight : m.req.request_id = issued[m.seq]

(* the request after the one with the largest id was issued *)
C5_Witness ==
    /\ Len(issued) >= 2
    /\ issued[Len(issued) - 1] = REQUEST_ID_MAX
    /\ issued[Len(issued)] = 0
    /\ app.tts.request_id = 0

(* The batch of in-flight task m is for the session and the page on display *)
matching(m) ==
    /\ m.req.request_id = app.tts.request_id
    /\ m.req.page = app.reader.current_page

(* The update u of a TtsPrepared with start_idx and files, reduced in the
   application state, started the track *)
track_started(u, start_idx, files) ==
    LET off == Min(start_idx, saturating_sub(Len(app.tts.last_sentences), 1))
    IN /\ u.app.tts.track = files
       /\ u.app.tts.sentence_offset = off
       /\ off <= start_idx
       /\ off < Len(app.tts.last_sentences)
       /\ u.app.tts.current_sentence_idx = Some(off)
       /\ u.app.tts.elapsed = 0
       /\ u.app.tts.started_at = Some(clock)
       /\ u.app.tts.running

(* C6 as stated: a non-empty batch with the session's request_id and the
   displayed page replaces the track, sets sentence_offset to the clamped
   start_idx and current_sentence_idx to it, resets elapsed, sets started_at
   to now and running to true. *)
C6_AcceptedBatchStartsTrack ==
    \A m \in inflight : \A files \in results(m) \ {<<>>}, play_ok \in BOOLEAN :
        matching(m) =>
            track_started(prepared(m, files, play_ok), m.req.start_idx, files)

(* C6: such a batch does all of that when engine.play_files succeeds; when
   play_files fails none of the assignments is made and no effect is emitted:
   the session is left as stop_playback left it. *)
C6_AcceptedBatchStartsTrackIfPlayed ==
    \A m \in inflight : \A files \in results(m) \ {<<>>} :
        matching(m) =>
            /\ track_started(prepared(m, files, TRUE), m.req.start_idx, files)
            /\ prepared(m, files, TRUE).effects = <<AutoScrollToCurrent>>
            /\ prepared(m, files, FALSE).app = stop_playback(app)
            /\ prepared(m, files, FALSE).effects = <<>>
            /\ ~track_started(prepared(m, files, FALSE), m.req.start_idx, files)

(* a batch that starts at the second sentence was accepted and plays *)
C6_Witness ==
    /\ last.msg = "TtsPrepared"
    /\ last.arg[1].req.start_idx = 1
    /\ last.effects = <<AutoScrollToCurrent>>
    /\ app.tts.running
    /\ app.tts.sentence_offset = 1
    /\ app.tts.current_sentence_idx = Some(1)
    /\ Len(app.tts.track) > 0
    /\ app.tts.started_at = Some(clock)

(* C7: an empty batch with the session's request_id and the displayed page
   stops playback and clears current_sentence_idx; the session is not running
   afterwards, no prepare request is issued and no effect is emitted. *)
C7_EmptyBatchStops ==
    \A m \in inflight : \A play_ok \in BOOLEAN :
        matching(m) =>
            LET u == prepared(m, <<>>, play_ok)
            IN /\ ~u.app.tts.running
               /\ u.app.tts.playback = None
               /\ u.app.tts.current_sentence_idx = None
               /\ u.app.tts.request_id = app.tts.request_id
               /\ u.app.reader = app.reader
               /\ u.effects = <<>>
               /\ u.tasks = <<>>

(* an empty batch for the session and the displayed page was reduced *)
C7_Witness ==
    /\ last.msg = "TtsPrepared"
    /\ last.arg[1].req.request_id = app.tts.request_id
    /\ last.arg[1].req.page = app.reader.current_page
    /\ last.effects = <<>>
    /\ app.tts.current_sentence_idx = None
    /\ ~app.tts.running
    /\ Len(app.tts.last_sentences) > 0

(* The moments a Tick can carry *)
Instants == 0..(MaxTime + 1)

(* Tick acts on the session: it is running, not paused, and has a start time *)
ticking(a) ==
    /\ a.tts.running
    /\ ~(IsSome(a.tts.playback) /\ Unwrap(a.tts.playback).paused)
    /\ IsSome(a.tts.started_at)

(* The cumulative boundary of track entry i (from 1): the sum of the
   durations and pauses of the entries up to i *)
RECURSIVE boundary(_, _, _)
boundary(track, pause, i) ==
    IF i = 0 THEN 0 ELSE boundary(track, pause, i - 1) + track[i] + pause

(* The entries of the track whose cumulative boundary is >= elapsed *)
reached(a, elapsed) ==
    {i \in 1..Len(a.tts.track) :
        boundary(a.tts.track, a.config.pause_after_sentence, i) >= elapsed}

first(S) == CHOOSE i \in S : \A j \in S : i <= j

(* C8: while running, Tick(now) takes elapsed = session.elapsed + (now -
   started_at) and sets current_sentence_idx to sentence_offset + i for the
   first track entry i (from 0) whose cumulative duration-plus-pause is >=
   elapsed; durations 2.0 s and 3.0 s with pause 0.5 s give index 0 at 2.2 s
   and index 1 at 2.6 s (in tenths of a second). *)
C8_TickResolvesSentence ==
    /\ \A now \in Instants :
          ticking(app) =>
            LET elapsed == app.tts.elapsed
                             + Max(0, now - Unwrap(app.tts.started_at))
                u == update(reduce_Tick(app, now))
            IN reached(app, elapsed) # {} =>
                 u.app.tts.current_sentence_idx =
                     Some(app.tts.sentence_offset + first(reached(app, elapsed)) - 1)
    /\ target_idx(<<20, 30>>, 5, 22, 0) = Some(0)
    /\ target_idx(<<20, 30>>, 5, 26, 0) = Some(1)
    /\ target_idx(<<20, 30>>, 5, 25, 0) = Some(0)

(* a Tick moved the highlight from the first clip of the track to the second
   one, past the first cumulative boundary *)
C8_Witness ==
    /\ last.msg = "Tick"
    /\ last.effects = <<AutoScrollToCurrent, SaveBookmark>>
    /\ app.tts.running
    /\ Len(app.tts.track) = 2
    /\ tick_elapsed(app, last.arg[1]) > app.tts.track[1] + app.config.pause_after_sentence
    /\ IsSome(app.tts.current_sentence_idx)
    /\ Unwrap(app.tts.current_sentence_idx) > app.tts.sentence_offset

(* C9: the same Tick(now) delivered twice in a row leaves, after the second
   delivery, the state the first delivery left, and the second delivery emits
   no effect and issues no request. *)
C9_TickIdempotent ==
    \A now \in Instants :
        LET u1 == update(reduce_Tick(app, now))
            u2 == update(reduce_Tick(u1.app, now))
        IN /\ u2.app = u1.app
           /\ u2.effects = <<>>
           /\ u2.tasks = <<>>

(* the same Tick was delivered twice: the first delivery acted, the second
   emitted nothing *)
C9_Witness ==
    /\ last.msg = "Tick"
    /\ last.repeat
    /\ last.before # <<>>
    /\ last.effects = <<>>

(* The total of the track: the last cumulative boundary *)
total(a) == boundary(a.tts.track, a.config.pause_after_sentence, Len(a.tts.track))

(* The effects are those of the finished-page transition *)
finishes(effects) == Len(effects) > 0 /\ effects[1] = StopTts

(* C10: over Ticks with non-decreasing time and no other event,
   current_sentence_idx does not decrease while the session runs, the
   finished-page transition is made by the first Tick whose elapsed exceeds
   the total of the track and by no Tick before it, and no later Tick makes
   it again. *)
C10_TickMonotonic ==
    \A t1, t2 \in Instants :
        (ticking(app) /\ t1 <= t2) =>
            LET u1 == update(reduce_Tick(app, t1))
                u2 == update(reduce_Tick(u1.app, t2))
                elapsed1 == app.tts.elapsed + Max(0, t1 - Unwrap(app.tts.started_at))
                elapsed2 == app.tts.elapsed + Max(0, t2 - Unwrap(app.tts.started_at))
            IN /\ finishes(u1.effects) <=> elapsed1 > total(app)
               /\ finishes(u1.effects) => u2.effects = <<>> /\ u2.app = u1.app
               /\ ~finishes(u1.effects) =>
                     /\ finishes(u2.effects) <=> elapsed2 > total(app)
                     /\ IsSome(u1.app.tts.current_sentence_idx)
                     /\ ~finishes(u2.effects) =>
                           /\ IsSome(u2.app.tts.current_sentence_idx)
                           /\ Unwrap(u1.app.tts.current_sentence_idx)
                                 <= Unwrap(u2.app.tts.current_sentence_idx)

(* a Tick past the end of the track finished the page and narration moved on
   to the next page *)
C10_Witness ==
    /\ last.msg = "Tick"
    /\ Len(last.effects) > 1
    /\ last.effects[1] = StopTts
    /\ ~app.tts.running
    /\ app.reader.current_page > 0
    /\ \E m \in inflight : m.req.page = app.reader.current_page

(* The instants at which a Tick finds elapsed past the whole track *)
past_track(a) ==
    {now \in Instants : tick_elapsed(a, now) > total(a)}

(* C11: a Tick that finds elapsed beyond every cumulative boundary stops the
   session; with a next page, current_page advances by exactly one and StopTts
   is followed by StartTts of that page at sentence 0 (a prepare request for
   it is issued when the page has sentences); without a next page the page is
   unchanged, only StopTts is emitted and the machine is not running. *)
C11_FinishedPage ==
    \A now \in Instants :
        (ticking(app) /\ now \in past_track(app)) =>
            LET u == update(reduce_Tick(app, now))
                cur == app.reader.current_page
            IN /\ ~u.app.tts.running
               /\ u.app.reader.pages = app.reader.pages
               /\ IF cur + 1 < Len(app.reader.pages)
                  THEN /\ u.app.reader.current_page = cur + 1
                       /\ u.effects = <<StopTts, StartTts(cur + 1, 0),
                                        AutoScrollToCurrent, SaveBookmark>>
                       /\ IF Len(split_sentences(page_text(app, cur + 1))) > 0
                          THEN /\ Len(u.tasks) = 1
                               /\ u.tasks[1].page = cur + 1
                               /\ u.tasks[1].start_idx = 0
                               /\ u.app.tts.current_sentence_idx = Some(0)
                          ELSE u.tasks = <<>>
                  ELSE /\ u.app.reader.current_page = cur
                       /\ u.effects = <<StopTts>>
                       /\ u.tasks = <<>>

(* a Tick past the end of the track on the last page ended the narration *)
C11_Witness ==
    /\ last.msg = "Tick"
    /\ last.effects = <<StopTts>>
    /\ ~app.tts.running
    /\ app.reader.current_page + 1 = Len(app.reader.pages)
    /\ Len(app.tts.track) > 0
    /\ inflight = {}

(* A Tick reduced while running is false, or while the playback handle
   reports paused, changes nothing and emits no effect *)
idle_tick_ignored ==
    \A now \in Instants :
        (~app.tts.running
          \/ (IsSome(app.tts.playback) /\ Unwrap(app.tts.playback).paused)) =>
            LET u == update(reduce_Tick(app, now))
            IN u.app = app /\ u.effects = <<>> /\ u.tasks = <<>>

(* C12: no tick work occurs while idle or paused: the tick subscription
   exists exactly while tts.running is true, a tick is produced only in a
   state where it is, and a Tick reduced while running is false or while the
   playback handle reports paused changes nothing and emits no effect. *)
C12_NoTickWorkWhileIdle ==
    /\ [](subscription(app) <=> app.tts.running)
    /\ [](idle_tick_ignored)
    /\ [][Len(tick_queue') > Len(tick_queue) => app.tts.running]_vars

(* a Tick produced before a Pause was reduced after it, on the paused session *)
C12_Witness ==
    /\ last.msg = "Tick"
    /\ last.effects = <<>>
    /\ ~app.tts.running
    /\ IsSome(app.tts.playback)
    /\ Unwrap(app.tts.playback).paused
    /\ app.tts.started_at = None

(* The instants Instant::now() can return: none is before the clock *)
Nows == {t \in Instants : t >= clock}

(* C13: Pause freezes the accumulated time: afterwards running is false,
   started_at is None and elapsed has grown by exactly now - started_at, or
   by nothing when started_at was already None; the engine is asked to pause
   the handle; track, sentence_offset and current_sentence_idx, the page and
   request_id are unchanged and nothing is emitted. *)
C13_PauseFreezesElapsed ==
    /\ IsSome(app.tts.started_at) => Unwrap(app.tts.started_at) <= clock
    /\ \A now \in Nows :
          LET u == update(reduce_Pause(app, now))
          IN /\ ~u.app.tts.running
             /\ u.app.tts.started_at = None
             /\ u.app.tts.elapsed =
                   IF IsSome(app.tts.started_at)
                   THEN app.tts.elapsed + (now - Unwrap(app.tts.started_at))
                   ELSE app.tts.elapsed
             /\ u.app.tts.track = app.tts.track
             /\ u.app.tts.sentence_offset = app.tts.sentence_offset
             /\ u.app.tts.current_sentence_idx = app.tts.current_sentence_idx
             /\ u.app.tts.request_id = app.tts.request_id
             /\ u.app.reader = app.reader
             /\ IsSome(app.tts.playback) => u.app.tts.playback = Some([paused |-> TRUE])
             /\ ~IsSome(app.tts.playback) => u.app.tts.playback = None
             /\ u.effects = <<>>
             /\ u.tasks = <<>>

(* a session that had played for some time was paused *)
C13_Witness ==
    /\ last.msg = "Pause"
    /\ ~app.tts.running
    /\ app.tts.started_at = None
    /\ app.tts.elapsed > 0
    /\ IsSome(app.tts.playback)
    /\ Unwrap(app.tts.playback).paused
    /\ Len(app.tts.track) > 0

(* A session that can be resumed exists: the playback handle is held *)
session_exists(a) == IsSome(a.tts.playback)

(* C14: Play resumes a paused session (started_at = now, running = true, the
   handle plays, elapsed and the track are kept, no prepare request is issued
   and request_id is unchanged); with no session it emits StartTts for the
   current page at sentence 0, which issues a new prepare request when the
   engine exists and the page has sentences. *)
C14_PlayResumesOrStarts ==
    \A now \in Nows :
        LET u == update(reduce_Play(app, now))
            sentences == split_sentences(page_text(app, app.reader.current_page))
        IN /\ (session_exists(app) /\ Unwrap(app.tts.playback).paused) =>
                 /\ u.app.tts.running
                 /\ u.app.tts.started_at = Some(now)
                 /\ u.app.tts.playback = Some([paused |-> FALSE])
                 /\ u.app.tts.elapsed = app.tts.elapsed
                 /\ u.app.tts.track = app.tts.track
                 /\ u.app.tts.current_sentence_idx = app.tts.current_sentence_idx
                 /\ u.app.tts.request_id = app.tts.request_id
                 /\ u.effects = <<>>
                 /\ u.tasks = <<>>
           /\ ~session_exists(app) =>
                 /\ u.effects = <<StartTts(app.reader.current_page, 0),
                                  AutoScrollToCurrent, SaveBookmark>>
                 /\ u.app.reader = app.reader
                 /\ ~u.app.tts.running
                 /\ IF app.tts.engine /\ Len(sentences) > 0
                    THEN /\ Len(u.tasks) = 1
                         /\ u.tasks[1].page = app.reader.current_page
                         /\ u.tasks[1].start_idx = 0
                         /\ u.tasks[1].request_id = wrapping_add(app.tts.request_id, 1)
                         /\ u.app.tts.request_id = u.tasks[1].request_id
                    ELSE /\ u.tasks = <<>>
                         /\ u.app.tts.request_id = app.tts.request_id

(* a paused session that had played for some time was resumed *)
C14_Witness ==
    /\ last.msg = "Play"
    /\ last.effects = <<>>
    /\ app.tts.running
    /\ app.tts.started_at = Some(clock)
    /\ app.tts.elapsed > 0
    /\ Len(app.tts.track) > 0

(* The sentences of the page on display *)
page_sentences(a) == split_sentences(page_text(a, a.reader.current_page))

(* The current sentence index, a missing one counting as 0 *)
current_idx(a) == unwrap_or(a.tts.current_sentence_idx, 0)

(* The update u issued exactly one prepare request: for the page, from
   start_idx, with the request_id after the one of state a *)
requested(a, u, page, start_idx) ==
    /\ Len(u.tasks) = 1
    /\ u.tasks[1].page = page
    /\ u.tasks[1].start_idx = start_idx
    /\ u.tasks[1].request_id = wrapping_add(a.tts.request_id, 1)
    /\ u.app.tts.request_id = u.tasks[1].request_id
    /\ u.app.tts.current_sentence_idx = Some(start_idx)
    /\ ~u.app.tts.running

(* What SeekForward does when sentences is the list in which it looks for
   the sentence after the current one *)
seeks_forward_in(sentences) ==
    LET u == update(reduce_SeekForward(app))
        cur == app.reader.current_page
        next_idx == current_idx(app) + 1
    IN IF next_idx < Len(sentences)
       THEN /\ u.app.reader.current_page = cur
            /\ u.effects = <<StartTts(cur, next_idx), AutoScrollToCurrent, SaveBookmark>>
            /\ app.tts.engine => requested(app, u, cur, next_idx)
       ELSE IF cur + 1 < Len(app.reader.pages)
       THEN /\ u.app.reader.current_page = cur + 1
            /\ u.effects = <<StartTts(cur + 1, 0), SaveConfig,
                             AutoScrollToCurrent, SaveBookmark>>
            /\ (app.tts.engine /\ Len(split_sentences(page_text(app, cur + 1))) > 0)
                  => requested(app, u, cur + 1, 0)
       ELSE u.app = app /\ u.effects = <<>> /\ u.tasks = <<>>

(* C16 as stated: SeekForward restarts on the same page at the current index
   + 1 if the page on display has a sentence after the current one, otherwise
   moves to the next page and restarts at its sentence 0, and changes nothing
   on the last sentence of the last page. *)
C16_SeekForwardOnPage == seeks_forward_in(page_sentences(app))

(* C16: SeekForward looks for the sentence after the current one in
   last_sentences, the list recorded when playback was last started: it
   restarts at the current index + 1 if that list has it, otherwise moves to
   the next page and restarts at its sentence 0, and changes nothing on the
   last page; last_sentences is the list of the page on display whenever a
   current sentence exists. *)
C16_SeekForward ==
    /\ seeks_forward_in(app.tts.last_sentences)
    /\ IsSome(app.tts.current_sentence_idx) =>
          app.tts.last_sentences = page_sentences(app)

(* SeekForward restarted playback at the second sentence of the page *)
C16_Witness ==
    /\ last.msg = "SeekForward"
    /\ last.effects = <<StartTts(app.reader.current_page, 1),
                        AutoScrollToCurrent, SaveBookmark>>
    /\ app.tts.current_sentence_idx = Some(1)
    /\ \E m \in inflight : /\ m.req.start_idx = 1
                           /\ m.req.request_id = app.tts.request_id

(* C17: SeekBackward restarts on the same page at the current index - 1 if
   the current index is greater than 0, otherwise retreats to the previous
   page, if any, and restarts at its last sentence; at sentence 0 of page 0
   nothing changes. *)
C17_SeekBackward ==
    LET u == update(reduce_SeekBackward(app))
        cur == app.reader.current_page
        idx == current_idx(app)
        previous == split_sentences(page_text(app, cur - 1))
    IN IF idx > 0
       THEN /\ u.app.reader.current_page = cur
            /\ u.effects = <<StartTts(cur, idx - 1), AutoScrollToCurrent, SaveBookmark>>
            /\ requested(app, u, cur, idx - 1)
       ELSE IF cur > 0
       THEN /\ u.app.reader.current_page = cur - 1
            /\ u.effects = <<StartTts(cur - 1, saturating_sub(Len(previous), 1)),
                             SaveConfig, AutoScrollToCurrent, SaveBookmark>>
            /\ (app.tts.engine /\ Len(previous) > 0)
                  => requested(app, u, cur - 1, Len(previous) - 1)
            /\ (~app.tts.engine \/ Len(previous) = 0) => u.tasks = <<>>
       ELSE u.app = app /\ u.effects = <<>> /\ u.tasks = <<>>

(* SeekBackward retreated to a page of two sentences and restarted playback
   at its last sentence *)
C17_Witness ==
    /\ last.msg = "SeekBackward"
    /\ Len(last.effects) = 4
    /\ last.effects[1] = StartTts(app.reader.current_page, 1)
    /\ app.tts.current_sentence_idx = Some(1)
    /\ Len(app.tts.last_sentences) = 2
    /\ \E m \in inflight : /\ m.req.start_idx = 1
                           /\ m.req.page = app.reader.current_page
                           /\ m.req.request_id = app.tts.request_id

(* The update u of a settings change restarted synthesis at the current page
   and sentence if restart, and issued no prepare request otherwise; the
   request asks for the current sentence itself when the page on display
   still has a sentence at that index, which re-pagination under a live
   session (C4) can end *)
restarted(u, restart) ==
    LET cur == app.reader.current_page
        idx == current_idx(app)
    IN IF restart
       THEN /\ \E i \in 1..Len(u.effects) : u.effects[i] = StartTts(cur, idx)
            /\ u.app.reader.current_page = cur
            /\ idx < Len(page_sentences(app)) => requested(app, u, cur, idx)
       ELSE /\ u.tasks = <<>>
            /\ u.app.tts.request_id = app.tts.request_id
            /\ \A i \in 1..Len(u.effects) :
                  u.effects[i] \in {SaveConfig, SaveBookmark, AutoScrollToCurrent}

(* C18: SetTtsSpeed, and PauseAfterSentenceChanged to another value, restart
   synthesis with a new request at the current page and current sentence
   index while a playback handle exists; without one they issue no prepare
   request. *)
C18_SettingsRestartSession ==
    /\ \A speed \in SpeedInputs :
          restarted(update(reduce_SetTtsSpeed(app, speed)), IsSome(app.tts.playback))
    /\ \A pause \in PauseInputs :
          restarted(update(reduce_PauseAfterSentenceChanged(app, pause)),
                    /\ IsSome(app.tts.playback)
                    /\ clamp(pause, 0, 2) # app.config.pause_after_sentence)

(* SetTtsSpeed restarted an active session: its request is in flight *)
C18_Witness ==
    /\ last.msg = "SetTtsSpeed"
    /\ Len(last.effects) = 4
    /\ Len(issued) = 2
    /\ IsSome(app.tts.current_sentence_idx)
    /\ \E m \in inflight : /\ m.req.request_id = app.tts.request_id
                           /\ m.req.page = app.reader.current_page
                           /\ Some(m.req.start_idx) = app.tts.current_sentence_idx

(* The plan plan_page returned *)
plan == Unwrap(planning.plan)

(* Position j + 1 holds what the code keeps at index j *)
at(v, j) == v[j + 1]

(* C19: in every plan plan_page returns, audio_sentences and
   audio_to_display have the same length, audio_to_display[j] = d implies
   display_to_audio[d] = Some(j), and display_to_audio[d] = Some(j) implies
   audio_to_display[j] = d. *)
C19_MappingInvariant ==
    IsSome(planning.plan) =>
        /\ Len(plan.audio_sentences) = Len(plan.audio_to_display)
        /\ \A j \in 0..(Len(plan.audio_to_display) - 1) :
              LET d == at(plan.audio_to_display, j)
              IN /\ d \in 0..(Len(plan.display_to_audio) - 1)
                 /\ at(plan.display_to_audio, d) = Some(j)
        /\ \A d \in 0..(Len(plan.display_to_audio) - 1) :
              LET a == at(plan.display_to_audio, d)
              IN IsSome(a) =>
                    /\ Unwrap(a) \in 0..(Len(plan.audio_to_display) - 1)
                    /\ at(plan.audio_to_display, Unwrap(a)) = d

(* A plan of two display sentences of which the first was dropped: audio
   index 0 is display index 1 *)
C19_Witness ==
    /\ IsSome(planning.plan)
    /\ normalizer.config.enabled
    /\ Len(planning.display_sentences) = 2
    /\ plan.display_to_audio = <<None, Some(0)>>
    /\ plan.audio_to_display = <<1>>

(* The display sentences were planned in page mode *)
page_mode_planned ==
    /\ IsSome(planning.plan)
    /\ normalizer.config.enabled
    /\ normalizer.config.mode = "Page"
    /\ planning.display_sentences # <<>>

(* Every character of the cleaned sentence of index k was read from the
   display sentence of index k *)
aligned(cleaned_sentences) ==
    \A k \in 1..Len(cleaned_sentences) :
        \A i \in 1..Len(cleaned_sentences[k]) : cleaned_sentences[k][i].from = k - 1

(* The text of the sentence marker occurs in a display sentence *)
marker_in(display_sentences) ==
    \E k \in 1..Len(display_sentences) :
        \E i \in 1..Len(display_sentences[k]) :
            occurs(display_sentences[k], SENTENCE_MARKER, i)

(* normalize_page_mode falls back to per-sentence cleaning when the segment
   count differs from the sentence count, returns one cleaned sentence per
   display sentence, and display_to_audio has one entry per display sentence *)
one_per_sentence ==
    LET display_sentences == planning.display_sentences
        cleaned_sentences == normalize_page_mode(normalizer.config, display_sentences)
    IN /\ Len(split_cleaned(normalizer.config, display_sentences)) # Len(display_sentences)
            => cleaned_sentences = clean_each(normalizer.config, display_sentences)
       /\ Len(cleaned_sentences) = Len(display_sentences)
       /\ Len(plan.display_to_audio) = Len(display_sentences)

(* C20 as stated: in page mode normalize_page_mode falls back when the segment
   count changed and always returns one cleaned sentence per display
   sentence, each derived from the display sentence at the same index, and
   display_to_audio has one entry per display sentence. *)
C20_FallbackAlwaysAligned ==
    page_mode_planned =>
        /\ one_per_sentence
        /\ aligned(normalize_page_mode(normalizer.config, planning.display_sentences))

(* C20: in page mode normalize_page_mode falls back when the segment count
   changed and always returns one cleaned sentence per display sentence, and
   display_to_audio has one entry per display sentence; each cleaned sentence
   is derived from the display sentence at the same index if no display
   sentence contains the marker text. *)
C20_FallbackAligned ==
    page_mode_planned =>
        /\ one_per_sentence
        /\ ~marker_in(planning.display_sentences)
              => aligned(normalize_page_mode(normalizer.config, planning.display_sentences))

(* Cleaning the joined page of two sentences without marker text left one
   segment, and the page was planned by the fallback *)
C20_Witness ==
    /\ page_mode_planned
    /\ Len(planning.display_sentences) = 2
    /\ ~marker_in(planning.display_sentences)
    /\ Len(split_cleaned(normalizer.config, planning.display_sentences)) = 1
    /\ Len(plan.audio_sentences) = 2

(* The text of the book's lines: the first sentence is a bare citation, which
   the default normalizer drops, the second is spoken *)
sentence_text(line) == IF line = 1 THEN <<"[", "1", "]">> ELSE <<"a", ".">>

(* The display sentences of the page on display, as plan_page receives them *)
display_sentences_of(a) ==
    [k \in 1..Len(page_sentences(a)) |-> read(sentence_text(page_sentences(a)[k]), k - 1)]

(* The audio index of the first surviving display sentence at or after
   display_idx *)
audio_index(p, display_idx) ==
    LET surviving == {d \in display_idx..(Len(p.display_to_audio) - 1) :
                         IsSome(at(p.display_to_audio, d))}
    IN Unwrap(at(p.display_to_audio, CHOOSE d \in surviving : \A e \in surviving : d <= e))

(* C15: PlayFromCursor(display_idx) stops the session, increments request_id
   and requests synthesis from the audio index that the normalizer's
   display_to_audio mapping gives for display_idx, skipping forward to the
   nearest surviving sentence. *)
C15_CursorTranslated ==
    \A display_idx \in CursorInputs :
        LET u == update(reduce_PlayFromCursor(app, display_idx))
            p == plan_page(normalizer.config, display_sentences_of(app))
            d == Min(display_idx, Len(p.display_to_audio) - 1)
        IN (/\ app.tts.engine
            /\ Len(p.display_to_audio) > 0
            /\ \E e \in d..(Len(p.display_to_audio) - 1) : IsSome(at(p.display_to_audio, e)))
           => /\ Len(u.tasks) = 1
              /\ u.tasks[1].request_id = wrapping_add(app.tts.request_id, 1)
              /\ u.tasks[1].page = app.reader.current_page
              /\ u.tasks[1].start_idx = audio_index(p, d)
              /\ ~u.app.tts.running /\ u.app.tts.playback = None

(* C21: with normalization disabled, plan_page returns the identity plan:
   audio_sentences is the display sentences unchanged, display_to_audio[i] =
   Some(i) and audio_to_display[i] = i for every i, and no sentence is
   dropped. *)
C21_DisabledIsIdentity ==
    (IsSome(planning.plan) /\ ~normalizer.config.enabled) =>
        /\ plan.audio_sentences = planning.display_sentences
        /\ Len(plan.display_to_audio) = Len(planning.display_sentences)
        /\ Len(plan.audio_to_display) = Len(planning.display_sentences)
        /\ \A i \in 0..(Len(planning.display_sentences) - 1) :
              /\ at(plan.display_to_audio, i) = Some(i)
              /\ at(plan.audio_to_display, i) = i

(* A disabled normalizer planned two sentences of which the enabled one
   would change the first and drop the second *)
C21_Witness ==
    /\ IsSome(planning.plan)
    /\ ~normalizer.config.enabled
    /\ Len(planning.display_sentences) = 2
    /\ chars(planning.display_sentences[1]) = <<"#", "a">>
    /\ chars(planning.display_sentences[2]) = <<".">>
    /\ plan.display_to_audio = <<Some(0), Some(1)>>

(* The sentences plan_page finalizes: the cleaned display sentences *)
cleaned_sentences_of(config, display_sentences) ==
    IF config.mode = "Page"
    THEN normalize_page_mode(config, display_sentences)
    ELSE clean_each(config, display_sentences)

(* The cleaned sentence is to be dropped: trimmed, it is empty, or shorter
   than the configured minimum, or without an alphanumeric character while
   the rule is on *)
dropped(config, cleaned) ==
    \/ trim(cleaned) = <<>>
    \/ chars_count(trim(cleaned)) < config.min_sentence_chars
    \/ /\ config.require_alphanumeric
       /\ \A i \in 1..Len(trim(cleaned)) : ~is_alphanumeric(trim(cleaned)[i].ch)

(* C22: with normalization enabled, display_to_audio is None for a display
   sentence exactly when its cleaned, trimmed text is empty, shorter than the
   minimum character count, or (rule enabled) without an alphanumeric
   character; every other sentence survives with its trimmed cleaned text as
   its audio sentence. *)
C22_DroppedExactly ==
    (IsSome(planning.plan) /\ normalizer.config.enabled) =>
        LET cleaned == cleaned_sentences_of(normalizer.config, planning.display_sentences)
        IN /\ Len(plan.display_to_audio) = Len(planning.display_sentences)
           /\ \A d \in 0..(Len(planning.display_sentences) - 1) :
                 IF dropped(normalizer.config, at(cleaned, d))
                 THEN at(plan.display_to_audio, d) = None
                 ELSE /\ IsSome(at(plan.display_to_audio, d))
                      /\ Unwrap(at(plan.display_to_audio, d))
                             \in 0..(Len(plan.audio_sentences) - 1)
                      /\ at(plan.audio_sentences, Unwrap(at(plan.display_to_audio, d)))
                             = trim(at(cleaned, d))

(* An enabled normalizer with the alphanumeric rule kept a sentence and
   dropped one that is long enough but has no alphanumeric character *)
C22_Witness ==
    /\ IsSome(planning.plan)
    /\ normalizer.config.enabled
    /\ normalizer.config.require_alphanumeric
    /\ normalizer.config.min_sentence_chars = 0
    /\ Len(planning.display_sentences) = 2
    /\ plan.display_to_audio = <<Some(0), None>>
    /\ chars(planning.display_sentences[2]) = <<".">>
    /\ chars(plan.audio_sentences[1]) = <<"a", ".">>

(* C23: plan_page is deterministic and pure: calls on identical display
   sentences under the same configuration return identical audio_sentences,
   display_to_audio and audio_to_display, whatever calls came before. *)
C23_PlanDeterministic ==
    \A i \in 1..Len(calls) : \A j \in 1..Len(calls) :
        calls[i].display_sentences = calls[j].display_sentences
            => /\ calls[i].plan.audio_sentences = calls[j].plan.audio_sentences
               /\ calls[i].plan.display_to_audio = calls[j].plan.display_to_audio
               /\ calls[i].plan.audio_to_display = calls[j].plan.audio_to_display

(* A page was planned, then another with another result, then the first one
   again, by a normalizer that drops one of its sentences *)
C23_Witness ==
    /\ Len(calls) = 3
    /\ calls[1].display_sentences = calls[3].display_sentences
    /\ calls[1].display_sentences # calls[2].display_sentences
    /\ calls[1].plan # calls[2].plan
    /\ \E d \in 1..Len(calls[1].plan.display_to_audio) :
          calls[1].plan.display_to_audio[d] = None

(* The texts of the sentences without their tags *)
texts(sentences) == [k \in 1..Len(sentences) |-> chars(sentences[k])]

(* C24: with citation dropping, whitespace collapsing and
   space-before-punctuation removal enabled, plan_page on ["See prior work
   [12, 13].", "It matters."] returns audio_sentences ["See prior work.",
   "It matters."] and display_to_audio [Some(0), Some(1)]. *)
C24_CitationExample ==
    \A i \in 1..Len(calls) :
        (/\ texts(calls[i].display_sentences) = ExamplePage
         /\ normalizer.config.enabled
         /\ normalizer.config.drop_numeric_bracket_citations
         /\ normalizer.config.collapse_whitespace
         /\ normalizer.config.remove_space_before_punctuation)
        => /\ texts(calls[i].plan.audio_sentences) =
                  <<SubSeq(ExamplePage[1], 1, 14) \o <<".">>, ExamplePage[2]>>
           /\ calls[i].plan.display_to_audio = <<Some(0), Some(1)>>

(* The example page was planned with the three steps enabled *)
C24_Witness ==
    /\ Len(calls) = 1
    /\ texts(calls[1].display_sentences) = ExamplePage
    /\ normalizer.config = DefaultConfig
    /\ Len(calls[1].plan.audio_sentences[1]) = 15
    /\ calls[1].plan.audio_to_display = <<0, 1>>

-----------------------------------------------------------------------------
(* The scroll position estimator (app/update/scroll.rs).  An f32 is the
   exact fraction <<n, d>> in lowest terms with d > 0, or NAN for a value
   that is not finite. *)

abs(n) == IF n < 0 THEN 0 - n ELSE n

Rat(n, d) ==
    IF n = 0 THEN <<0, 1>>
    ELSE LET g == GCD(abs(n), d) IN <<n \div g, d \div g>>

NAN == <<0, 0>>

(* `let x = value;` followed by the body: the value is computed once *)
bind(value, body(_)) == CHOOSE r \in {body(x) : x \in {value}} : TRUE

is_finite(v) == v[2] # 0

(* f32 + - * /; the divisor is positive wherever the code divides.  Each
   operand is evaluated once, as a value. *)
add(p, q) ==
    CHOOSE r \in {Rat(x[1] * y[2] + y[1] * x[2], x[2] * y[2]) : x \in {p}, y \in {q}} : TRUE

sub(p, q) ==
    CHOOSE r \in {Rat(x[1] * y[2] - y[1] * x[2], x[2] * y[2]) : x \in {p}, y \in {q}} : TRUE

mul(p, q) ==
    CHOOSE r \in {Rat(x[1] * y[1], x[2] * y[2]) : x \in {p}, y \in {q}} : TRUE

div(p, q) ==
    CHOOSE r \in {Rat(x[1] * y[2], x[2] * y[1]) : x \in {p}, y \in {q}} : TRUE

(* f32 <= and <: the whole parts decide, and the fractional parts when the
   whole parts are equal; a comparison with a value that is not finite is
   false *)
whole(p) == p[1] \div p[2]

le(p, q) ==
    \E x \in {p}, y \in {q} :
        IF x[2] = 0 \/ y[2] = 0 THEN FALSE
        ELSE IF whole(x) # whole(y) THEN whole(x) < whole(y)
        ELSE (x[1] - whole(x) * x[2]) * y[2] <= (y[1] - whole(y) * y[2]) * x[2]

lt(p, q) ==
    \E x \in {p}, y \in {q} :
        IF x[2] = 0 \/ y[2] = 0 THEN FALSE
        ELSE IF whole(x) # whole(y) THEN whole(x) < whole(y)
        ELSE (x[1] - whole(x) * x[2]) * y[2] < (y[1] - whole(y) * y[2]) * x[2]

fclamp_unclamped(v, lo, hi) == v

(* f32::min, f32::max, f32::clamp *)
fmin(p, q) == CHOOSE r \in {IF le(x, y) THEN x ELSE y : x \in {p}, y \in {q}} : TRUE

fmax(p, q) == CHOOSE r \in {IF le(y, x) THEN x ELSE y : x \in {p}, y \in {q}} : TRUE

fclamp(v, lo, hi) == fmax(lo, fmin(v, hi))

(* usize as f32 *)
as_f32(n) == <<n, 1>>

(* f32::EPSILON = 2^-23 *)
EPSILON == <<1, 8388608>>

(* App::sanitize_offset *)
sanitize_offset(offset) ==
    [x |-> IF is_finite(offset.x) THEN fclamp(offset.x, <<0, 1>>, <<1, 1>>) ELSE <<0, 1>>,
     y |-> IF is_finite(offset.y) THEN fclamp(offset.y, <<0, 1>>, <<1, 1>>) ELSE <<0, 1>>]

(* char::is_ascii_punctuation and char::is_ascii, on the model's characters;
   NON_ASCII stands for one character outside ASCII *)
NON_ASCII == "non-ascii"

is_ascii_punctuation(ch) == ch \in {",", ".", ";", ":", "!", "?", "[", "]", "#"}

is_ascii(ch) == ch # NON_ASCII

(* App::estimated_glyph_width_px *)
estimated_glyph_width_px(a) ==
    LET font_size == as_f32(Max(a.config.font_size, 1))
        family_scale ==
            CASE a.config.font_family \in {"Monospace", "Courier", "FiraCode"} -> <<16, 25>>
              [] a.config.font_family = "Serif" -> <<14, 25>>
              [] a.config.font_family \in {"Lexend", "NotoSans"} -> <<27, 50>>
              [] a.config.font_family \in {"AtkinsonHyperlegible", "AtkinsonHyperlegibleNext",
                                           "LexicaUltralegible"} -> <<57, 100>>
              [] OTHER -> <<11, 20>>
        weight_scale ==
            CASE a.config.font_weight = "Light" -> <<49, 50>>
              [] a.config.font_weight = "Normal" -> <<1, 1>>
              [] a.config.font_weight = "Bold" -> <<103, 100>>
    IN mul(mul(font_size, family_scale), weight_scale)

(* App::estimated_text_width *)
estimated_text_width(a) ==
    LET fallback == IF a.config.show_settings
                    THEN fmax(sub(fmax(a.config.window_width, <<1, 1>>), <<320, 1>>), <<1, 1>>)
                    ELSE fmax(a.config.window_width, <<1, 1>>)
        base_width ==
            CASE lt(<<0, 1>>, a.bookmark.viewport_width) /\ lt(<<0, 1>>, a.bookmark.content_width) ->
                    fmin(a.bookmark.viewport_width, a.bookmark.content_width)
              [] lt(<<0, 1>>, a.bookmark.viewport_width) /\ ~lt(<<0, 1>>, a.bookmark.content_width) ->
                    a.bookmark.viewport_width
              [] ~lt(<<0, 1>>, a.bookmark.viewport_width) /\ lt(<<0, 1>>, a.bookmark.content_width) ->
                    a.bookmark.content_width
              [] OTHER -> fmax(sub(fallback, <<48, 1>>), <<1, 1>>)
        margin_total == fmin(mul(as_f32(a.config.margin_horizontal), <<2, 1>>),
                             mul(base_width, <<9, 10>>))
    IN fmax(sub(base_width, margin_total), <<1, 1>>)

(* The closure's `units` of estimate_sentence_line_weights *)
units(a, ch) ==
    IF is_whitespace(ch)
    THEN add(<<9, 20>>, mul(as_f32(a.config.word_spacing), <<9, 20>>))
    ELSE IF is_ascii_punctuation(ch)
    THEN add(<<11, 20>>, mul(as_f32(a.config.letter_spacing), <<1, 10>>))
    ELSE IF is_ascii(ch)
    THEN add(<<1, 1>>, mul(as_f32(a.config.letter_spacing), <<7, 20>>))
    ELSE add(<<9, 5>>, mul(as_f32(a.config.letter_spacing), <<1, 5>>))

(* The `for ch in sentence.chars()` loop of estimate_sentence_line_weights:
   the number of lines the sentence wraps to *)
RECURSIVE count_lines(_, _, _, _, _, _)
count_lines(a, sentence, i, lines, line_units, max_units_per_line) ==
    IF i > Len(sentence) THEN lines
    ELSE IF sentence[i] = LF
    THEN count_lines(a, sentence, i + 1, lines + 1, <<0, 1>>, max_units_per_line)
    ELSE bind(units(a, sentence[i]), LAMBDA u :
              IF lt(max_units_per_line, add(line_units, u))
              THEN count_lines(a, sentence, i + 1, lines + 1, u, max_units_per_line)
              ELSE bind(add(line_units, u), LAMBDA filled :
                        count_lines(a, sentence, i + 1, lines, filled, max_units_per_line)))

(* App::estimate_sentence_line_weights *)
estimate_sentence_line_weights(a, sentences) ==
    bind(estimated_text_width(a), LAMBDA available_width :
        IF le(available_width, EPSILON)
        THEN [k \in 1..Len(sentences) |-> <<1, 1>>]
        ELSE bind(fmax(div(available_width, fmax(estimated_glyph_width_px(a), <<1, 1>>)),
                       <<8, 1>>),
                  LAMBDA max_units_per_line :
                      [k \in 1..Len(sentences) |->
                          mul(as_f32(count_lines(a, sentences[k], 1, 1, <<0, 1>>,
                                                 max_units_per_line)),
                              fmax(a.config.line_spacing, <<4, 5>>))]))

(* Iterator::sum over the first n weights *)
RECURSIVE sum(_, _)
sum(weights, n) == IF n = 0 THEN <<0, 1>> ELSE add(sum(weights, n - 1), weights[n])

sentence_progress_for_page_own_weight(a, sentence_idx, total_sentences) ==
    IF a.reader.current_page >= Len(a.reader.page_sentences) THEN None
    ELSE LET sentences == a.reader.page_sentences[a.reader.current_page + 1]
         IN IF Len(sentences) = 0 THEN None
            ELSE LET sentence_weights == estimate_sentence_line_weights(a, sentences)
                     idx == Min(sentence_idx, saturating_sub(Len(sentence_weights), 1))
                     total_weight == sum(sentence_weights, Len(sentence_weights))
                     before_weight == sentence_weights[idx + 1]
                 IN Some([start |-> fclamp(div(before_weight, total_weight),
                                           <<0, 1>>, <<1, 1>>),
                          middle |-> fclamp(div(add(before_weight,
                                                    mul(before_weight, <<1, 2>>)),
                                                total_weight),
                                            <<0, 1>>, <<1, 1>>)])

(* App::sentence_progress_for_page; pages.get and page_sentences.get of a page
   past the end are None *)
sentence_progress_for_page(a, sentence_idx, total_sentences) ==
    IF a.reader.current_page >= Len(a.reader.pages) THEN None
    ELSE IF a.reader.current_page >= Len(a.reader.page_sentences) THEN None
    ELSE bind(a.reader.page_sentences[a.reader.current_page + 1], LAMBDA sentences :
         IF Len(sentences) = 0 THEN None
         ELSE bind(estimate_sentence_line_weights(a, sentences), LAMBDA sentence_weights :
              bind(sum(sentence_weights, Len(sentence_weights)), LAMBDA total_weight :
              bind(sum(sentence_weights,
                       Min(sentence_idx, saturating_sub(Len(sentence_weights), 1))),
                   LAMBDA before_weight :
                  LET idx == Min(sentence_idx, saturating_sub(Len(sentence_weights), 1))
                      sentence_weight == fmax(sentence_weights[idx + 1], EPSILON)
                  IN IF le(total_weight, EPSILON) THEN None
                     ELSE Some([start |-> fclamp(div(before_weight, total_weight),
                                                 <<0, 1>>, <<1, 1>>),
                                middle |-> fclamp(div(add(before_weight,
                                                          mul(sentence_weight, <<1, 2>>)),
                                                      total_weight),
                                                  <<0, 1>>, <<1, 1>>)])))))

(* App::estimated_viewport_fraction *)
estimated_viewport_fraction(a) ==
    IF lt(<<0, 1>>, a.bookmark.viewport_height)
       /\ lt(a.bookmark.viewport_height, a.bookmark.content_height)
    THEN fclamp(div(a.bookmark.viewport_height, a.bookmark.content_height),
                <<1, 20>>, <<19, 20>>)
    ELSE IF is_finite(a.bookmark.viewport_fraction) /\ lt(<<0, 1>>, a.bookmark.viewport_fraction)
    THEN fclamp(a.bookmark.viewport_fraction, <<1, 20>>, <<19, 20>>)
    ELSE <<1, 4>>

(* The closure of unwrap_or_else in scroll_offset_for_sentence: the
   equal-height progress of a page whose sentences are not known *)
ratio_progress(sentence_idx, total_sentences) ==
    LET clamped_idx == as_f32(Min(sentence_idx, saturating_sub(total_sentences, 1)))
        denom == as_f32(Max(saturating_sub(total_sentences, 1), 1))
        ratio == fclamp(div(clamped_idx, denom), <<0, 1>>, <<1, 1>>)
    IN [start |-> ratio, middle |-> ratio]

(* `desired_top` of scroll_offset_for_sentence *)
desired_top(a, progress, viewport_fraction) ==
    IF a.config.center_spoken_sentence
    THEN fmin(sub(progress.middle, mul(<<1, 2>>, viewport_fraction)),
              sub(progress.start, mul(<<2, 25>>, viewport_fraction)))
    ELSE sub(progress.start, mul(<<1, 5>>, viewport_fraction))

scroll_offset_for_sentence_in_viewport_top_when_empty(a, sentence_idx, total_sentences) ==
    IF total_sentences = 0 THEN Some(START)
    ELSE Some([x |-> <<0, 1>>,
               y |-> fclamp(div(desired_top(a, ratio_progress(sentence_idx, total_sentences),
                                            estimated_viewport_fraction(a)),
                                fmax(sub(<<1, 1>>, estimated_viewport_fraction(a)), <<1, 10000>>)),
                            <<0, 1>>, <<1, 1>>)])

(* App::scroll_offset_for_sentence of scroll.rs *)
scroll_offset_for_sentence_in_viewport(a, sentence_idx, total_sentences) ==
    IF total_sentences = 0 THEN None
    ELSE bind(unwrap_or(sentence_progress_for_page(a, sentence_idx, total_sentences),
                        ratio_progress(sentence_idx, total_sentences)),
              LAMBDA progress :
         bind(estimated_viewport_fraction(a), LAMBDA viewport_fraction :
              IF le(<<999, 1000>>, viewport_fraction) THEN Some(START)
              ELSE Some([x |-> <<0, 1>>,
                         y |-> fclamp(div(desired_top(a, progress, viewport_fraction),
                                          fmax(sub(<<1, 1>>, viewport_fraction),
                                               <<1, 10000>>)),
                                      <<0, 1>>, <<1, 1>>)])))

(* App::sentence_count_for_page: the number of sentences of the page *)
sentence_count_for_page(a, page) ==
    IF page < Len(a.reader.page_sentences) THEN Len(a.reader.page_sentences[page + 1]) ELSE 0

(* App::handle_scrolled: the new state and the effects pushed *)
handle_scrolled(a, offset, viewport_width, viewport_height, content_width, content_height) ==
    LET sanitized == sanitize_offset(offset)
        a1 == [a EXCEPT
                 !.bookmark.viewport_width =
                     IF is_finite(viewport_width) THEN fmax(viewport_width, <<0, 1>>) ELSE <<0, 1>>,
                 !.bookmark.viewport_height =
                     IF is_finite(viewport_height) THEN fmax(viewport_height, <<0, 1>>) ELSE <<0, 1>>,
                 !.bookmark.content_width =
                     IF is_finite(content_width) THEN fmax(content_width, <<0, 1>>) ELSE <<0, 1>>,
                 !.bookmark.content_height =
                     IF is_finite(content_height) THEN fmax(content_height, <<0, 1>>) ELSE <<0, 1>>,
                 !.bookmark.viewport_fraction =
                     IF is_finite(viewport_height) /\ is_finite(content_height)
                        /\ lt(<<0, 1>>, content_height)
                     THEN fclamp(div(viewport_height, content_height), <<1, 20>>, <<1, 1>>)
                     ELSE <<1, 4>>]
        moved == sanitized # a1.bookmark.last_scroll_offset
        a2 == IF moved THEN [a1 EXCEPT !.bookmark.last_scroll_offset = sanitized] ELSE a1
        saved == IF moved THEN <<SaveBookmark>> ELSE <<>>
        snap == a2.bookmark.pending_sentence_snap
        a3 == [a2 EXCEPT !.bookmark.pending_sentence_snap = None]
        found == IF IsSome(snap)
                 THEN scroll_offset_for_sentence_in_viewport(
                          a3, Unwrap(snap), sentence_count_for_page(a3, a3.reader.current_page))
                 ELSE None
    IN IF IsSome(found) /\ sanitize_offset(Unwrap(found)) # a3.bookmark.last_scroll_offset
       THEN [app |-> [a3 EXCEPT !.bookmark.last_scroll_offset = sanitize_offset(Unwrap(found))],
             effects |-> saved \o <<ScrollTo(sanitize_offset(Unwrap(found))), SaveBookmark>>]
       ELSE [app |-> a3, effects |-> saved]

(* App::handle_jump_to_current_audio *)
handle_jump_to_current_audio(a) ==
    IF IsSome(a.tts.current_sentence_idx)
    THEN LET found == scroll_offset_for_sentence_in_viewport(
                          a, Unwrap(a.tts.current_sentence_idx),
                          sentence_count_for_page(a, a.reader.current_page))
         IN IF IsSome(found)
            THEN [app |-> a, effects |-> <<ScrollTo(Unwrap(found)), SaveBookmark>>]
            ELSE [app |-> a, effects |-> <<>>]
    ELSE [app |-> a, effects |-> <<>>]

(* The arm Effect::AutoScrollToCurrent of App::run_effect, where
   self.scroll_offset_for_sentence is the estimator of scroll.rs *)
auto_scroll_to_current(a) ==
    IF ~a.config.auto_scroll_tts THEN a
    ELSE IF IsSome(a.tts.current_sentence_idx)
    THEN LET offset == scroll_offset_for_sentence_in_viewport(
                           a, Unwrap(a.tts.current_sentence_idx), Len(a.tts.last_sentences))
         IN IF IsSome(offset)
            THEN [a EXCEPT !.bookmark.last_scroll_offset = Unwrap(offset)]
            ELSE a
    ELSE a

-----------------------------------------------------------------------------
(* The estimator's state machine: the view reports scrolls and geometry, the
   reader jumps to the spoken sentence, narration moves on and auto-scrolls *)

MaxIndex == 4

MaxTotal == 3

rep(ch, n) == [i \in 1..n |-> ch]

(* The sentences of the open page, as the reader knows them: sentences of
   different lengths, sentences with a line feed and a character outside
   ASCII, one sentence, none yet *)
ScrollPages ==
    { << <<"a">>, rep("a", 9), <<"a", " ", "b", ".">> >>,
      << <<"a", LF, LF, "b">>, <<NON_ASCII, "a", ",">> >>,
      << <<"a">> >>,
      << >> }

(* What the view reports with a scroll: viewport width and height, content
   width and height *)
Geometries ==
    { << <<60, 1>>, <<100, 1>>, <<60, 1>>, <<1000, 1>> >>,
      << <<60, 1>>, <<900, 1>>, <<60, 1>>, <<1000, 1>> >>,
      << <<800, 1>>, <<1000, 1>>, <<800, 1>>, <<1000, 1>> >>,
      << <<800, 1>>, <<1000, 1>>, <<800, 1>>, <<900, 1>> >>,
      << <<0, 1>>, <<0, 1>>, <<800, 1>>, <<1000, 1>> >>,
      << <<0, 1>>, <<0, 1>>, <<0, 1>>, <<0, 1>> >>,
      << NAN, NAN, NAN, NAN >> }

(* The vertical offsets the view reports *)
ScrollInputs == {<<0, 1>>, <<1, 1000>>, <<3, 2>>, NAN}

(* The narrated batch of a page whose sentences the reader does not know *)
UnknownPageBatch == <<1, 2, 3>>

scroll_app(center, auto_scroll, sentences, snap) ==
    [config |-> [center_spoken_sentence |-> center, auto_scroll_tts |-> auto_scroll,
                 word_spacing |-> 0, letter_spacing |-> 0, line_spacing |-> <<6, 5>>,
                 font_size |-> 16, font_family |-> "Sans", font_weight |-> "Normal",
                 margin_horizontal |-> 4, window_width |-> <<100, 1>>,
                 show_settings |-> FALSE],
     bookmark |-> [last_scroll_offset |-> START,
                   viewport_width |-> <<0, 1>>, viewport_height |-> <<0, 1>>,
                   content_width |-> <<0, 1>>, content_height |-> <<0, 1>>,
                   viewport_fraction |-> <<1, 4>>,
                   pending_sentence_snap |-> snap],
     reader |-> [pages |-> <<sentences>>, page_sentences |-> <<sentences>>,
                 current_page |-> 0],
     tts |-> [current_sentence_idx |-> None,
              last_sentences |-> IF Len(sentences) = 0 THEN UnknownPageBatch ELSE sentences]]

InitScroll ==
    /\ app \in {scroll_app(center, auto_scroll, sentences, snap) :
                    center \in BOOLEAN, auto_scroll \in {TRUE},
                    sentences \in ScrollPages, snap \in {None, Some(1)}}
    /\ inflight = {}
    /\ issued = <<>>
    /\ clock = 0
    /\ tick_queue = <<>>
    /\ last = [msg |-> "bootstrap", arg |-> <<>>, effects |-> <<>>,
              repeat |-> FALSE, before |-> <<>>]
    /\ normalizer = [config |-> DefaultConfig]
    /\ planning = [display_sentences |-> <<>>, plan |-> None]
    /\ calls = <<>>

(* Message::Scrolled *)
Scrolled ==
    /\ \E g \in Geometries, y \in ScrollInputs :
          LET r == handle_scrolled(app, [x |-> <<0, 1>>, y |-> y], g[1], g[2], g[3], g[4])
          IN /\ app' = run_effects(r.app, r.effects, <<>>).app
             /\ last' = [msg |-> "Scrolled", arg |-> <<>>, effects |-> r.effects,
                         repeat |-> FALSE, before |-> <<>>]
    /\ UNCHANGED <<inflight, issued, clock, tick_queue, normalizer, planning, calls>>

(* Message::JumpToCurrentAudio *)
JumpToCurrentAudio ==
    /\ LET r == handle_jump_to_current_audio(app)
       IN /\ app' = run_effects(r.app, r.effects, <<>>).app
          /\ last' = [msg |-> "JumpToCurrentAudio", arg |-> <<>>, effects |-> r.effects,
                      repeat |-> FALSE, before |-> <<>>]
    /\ UNCHANGED <<inflight, issued, clock, tick_queue, normalizer, planning, calls>>

(* Narration reaches sentence idx and the reducer emits AutoScrollToCurrent *)
AutoScroll ==
    /\ \E idx \in 0..MaxIndex :
          /\ app' = auto_scroll_to_current([app EXCEPT !.tts.current_sentence_idx = Some(idx)])
          /\ last' = [msg |-> "AutoScrollToCurrent", arg |-> <<>>,
                      effects |-> <<AutoScrollToCurrent>>,
                      repeat |-> FALSE, before |-> <<>>]
    /\ UNCHANGED <<inflight, issued, clock, tick_queue, normalizer, planning, calls>>

NextScroll ==
    \/ Scrolled
    \/ JumpToCurrentAudio
    \/ AutoScroll

SpecScroll == InitScroll /\ [][NextScroll]_vars


-----------------------------------------------------------------------------
(* C25: scroll_offset_for_sentence returns None whenever total_sentences is
   0, whatever sentence index is requested, and returns Some for every
   total_sentences >= 1; this holds of the estimator of scroll.rs and of the
   one of update.rs, in every state of the reader. *)
C25_NoneIffNoSentences ==
    \A idx \in 0..MaxIndex :
        /\ scroll_offset_for_sentence_in_viewport(app, idx, 0) = None
        /\ scroll_offset_for_sentence(app, idx, 0) = None
        /\ \A count \in 1..MaxTotal :
              /\ IsSome(scroll_offset_for_sentence_in_viewport(app, idx, count))
              /\ IsSome(scroll_offset_for_sentence(app, idx, count))

(* A jump to the spoken sentence on a page without sentences pushed no scroll,
   and an auto-scroll on a page with sentences moved the view *)
C25_Witness ==
    /\ last.msg = "JumpToCurrentAudio"
    /\ IsSome(app.tts.current_sentence_idx)
    /\ sentence_count_for_page(app, app.reader.current_page) = 0
    /\ last.effects = <<>>
    /\ app.bookmark.last_scroll_offset # START


(* The view has reported a content no taller than the viewport *)
whole_page_visible(a) ==
    /\ lt(<<0, 1>>, a.bookmark.content_height)
    /\ le(a.bookmark.content_height, a.bookmark.viewport_height)

(* C26: when the viewport already shows the whole page (viewport height >=
   content height, viewport fraction approximately 1),
   scroll_offset_for_sentence returns the top offset (x = 0, y = 0) for every
   sentence index, with centered tracking and without. *)
C26_WholePageIsTop ==
    whole_page_visible(app) =>
        \A idx \in 0..MaxIndex, count \in 1..MaxTotal :
            scroll_offset_for_sentence_in_viewport(app, idx, count) = Some(START)

(* C27: with centered tracking and a viewport fraction of 0.9,
   scroll_offset_for_sentence returns the offset {x: 0, y: 0} for every
   sentence index of the page. *)
C27_NearlyFullIsTop ==
    (app.config.center_spoken_sentence /\ estimated_viewport_fraction(app) = <<9, 10>>) =>
        \A idx \in 0..MaxIndex :
            LET count == sentence_count_for_page(app, app.reader.current_page)
            IN count >= 1 =>
                  scroll_offset_for_sentence_in_viewport(app, idx, count) = Some(START)


(* x = 0 and y within [0, 1] *)
in_range(target) ==
    /\ target.x = <<0, 1>>
    /\ le(<<0, 1>>, target.y)
    /\ le(target.y, <<1, 1>>)

(* C28: every scroll target produced by scroll_offset_for_sentence has x = 0
   and y within [0, 1], for every sentence index (indices past the last
   sentence included), every sentence count >= 1, every geometry the view
   has reported and both tracking modes; this holds of the estimator of
   scroll.rs and of the one of update.rs. *)
C28_TargetInRange ==
    \A idx \in 0..MaxIndex, count \in 1..MaxTotal :
        /\ in_range(Unwrap(scroll_offset_for_sentence_in_viewport(app, idx, count)))
        /\ in_range(Unwrap(scroll_offset_for_sentence(app, idx, count)))

(* Narration reached an index past the last sentence of the page and the view
   was scrolled to a target strictly inside the scrollable range *)
C28_Witness ==
    /\ last.msg = "AutoScrollToCurrent"
    /\ IsSome(app.tts.current_sentence_idx)
    /\ Unwrap(app.tts.current_sentence_idx) >= Len(app.tts.last_sentences)
    /\ lt(<<0, 1>>, app.bookmark.last_scroll_offset.y)
    /\ lt(app.bookmark.last_scroll_offset.y, <<1, 1>>)


(* The vertical fraction of the target of sentence idx *)
y_of(a, idx, count) == Unwrap(scroll_offset_for_sentence_in_viewport(a, idx, count)).y

(* The fractions y, indexed by sentence, never go down *)
nondecreasing(y) == \A i \in DOMAIN y, j \in DOMAIN y : i <= j => le(y[i], y[j])

(* C29: scroll monotonicity.  For a fixed page, configuration and geometry a
   later sentence never gets an earlier scroll fraction: for all sentence
   indices i <= j, scroll_offset_for_sentence(i).y <= scroll_offset_for_sentence(j).y,
   with the line-weighted progress and with the equal-height fallback, with
   centered tracking and without. *)
C29_Monotone ==
    \A count \in 1..MaxTotal :
        nondecreasing([idx \in 0..MaxIndex |-> y_of(app, idx, count)])

(* The view reported a geometry under which the sentences of the page wrap to
   different numbers of lines, and a later sentence lies strictly further down *)
C29_Witness ==
    /\ last.msg = "Scrolled"
    /\ IsSome(sentence_progress_for_page(app, 0, 1))
    /\ \E k \in 1..Len(app.tts.last_sentences) :
          estimate_sentence_line_weights(app, app.tts.last_sentences)[k]
              # estimate_sentence_line_weights(app, app.tts.last_sentences)[1]
    /\ \E i \in 0..MaxIndex, j \in 0..MaxIndex :
          /\ i < j
          /\ lt(<<0, 1>>, y_of(app, i, Len(app.tts.last_sentences)))
          /\ lt(y_of(app, i, Len(app.tts.last_sentences)),
                y_of(app, j, Len(app.tts.last_sentences)))


(* Two vertical positions closer than two thousandths of the scrollable
   range: a delta inside the dead-zone of shouldScroll, whatever its minimum *)
within_dead_zone(target, current) ==
    /\ lt(sub(target.y, current.y), <<1, 500>>)
    /\ lt(sub(current.y, target.y), <<1, 500>>)

(* C30: an automatic scroll whose target differs from the current scroll
   position by less than the dead-zone is suppressed: no scroll command is
   issued and the stored scroll offset is unchanged, so that ticks resolving
   to nearly the same target issue no scroll. *)
C30_DeadZoneSuppresses ==
    [][(/\ last'.msg = "AutoScrollToCurrent"
        /\ app.config.auto_scroll_tts
        /\ within_dead_zone(
               Unwrap(scroll_offset_for_sentence_in_viewport(
                          app, Unwrap(app'.tts.current_sentence_idx),
                          Len(app.tts.last_sentences))),
               app.bookmark.last_scroll_offset))
       => app'.bookmark.last_scroll_offset = app.bookmark.last_scroll_offset]_vars


-----------------------------------------------------------------------------
(* The typography settings of the reducer (update.rs 87-124) *)

MAX_MARGIN == 48

MAX_WORD_SPACING == 5

MAX_LETTER_SPACING == 3

reduce_LineSpacingChanged(a, spacing) ==
    [app |-> [a EXCEPT !.config.line_spacing = fclamp(spacing, <<4, 5>>, <<5, 2>>)],
     effects |-> <<SaveConfig>>]

reduce_MarginHorizontalChanged(a, margin) ==
    [app |-> [a EXCEPT !.config.margin_horizontal = Min(margin, MAX_MARGIN)],
     effects |-> <<SaveConfig>>]

reduce_MarginVerticalChanged(a, margin) ==
    [app |-> [a EXCEPT !.config.margin_vertical = Min(margin, MAX_MARGIN)],
     effects |-> <<SaveConfig>>]

reduce_WordSpacingChanged_unbounded(a, spacing) ==
    [app |-> [a EXCEPT !.config.word_spacing = spacing],
     effects |-> <<SaveConfig>>]

reduce_WordSpacingChanged(a, spacing) ==
    [app |-> [a EXCEPT !.config.word_spacing = Min(spacing, MAX_WORD_SPACING)],
     effects |-> <<SaveConfig>>]

reduce_LetterSpacingChanged(a, spacing) ==
    [app |-> [a EXCEPT !.config.letter_spacing = Min(spacing, MAX_LETTER_SPACING)],
     effects |-> <<SaveConfig>>]

(* The values the settings panel and a caller of update can send: inside,
   at the edge of and outside each range *)
LineSpacingInputs == {<<1, 2>>, <<6, 5>>, <<3, 1>>}

MarginInputs == {0, MAX_MARGIN, MAX_MARGIN + 1}

WordSpacingInputs == {0, MAX_WORD_SPACING, MAX_WORD_SPACING + 1}

LetterSpacingInputs == {0, MAX_LETTER_SPACING, MAX_LETTER_SPACING + 1}

(* The App at startup, with the typography settings of the default
   configuration *)
InitSettings ==
    /\ app = [bootstrap(TRUE, MIN_FONT_SIZE, MAX_LINES_PER_PAGE, 0) EXCEPT
                 !.config = [line_spacing |-> <<6, 5>>, margin_horizontal |-> 12,
                             margin_vertical |-> 12, word_spacing |-> 0,
                             letter_spacing |-> 0] @@ @]
    /\ inflight = {}
    /\ issued = <<>>
    /\ clock = 0
    /\ tick_queue = <<>>
    /\ last = [msg |-> "bootstrap", arg |-> <<>>, effects |-> <<>>,
              repeat |-> FALSE, before |-> <<>>]
    /\ normalizer = [config |-> DefaultConfig]
    /\ planning = [display_sentences |-> <<>>, plan |-> None]
    /\ calls = <<>>

LineSpacingChanged ==
    /\ \E spacing \in LineSpacingInputs :
          Step(reduce_LineSpacingChanged(app, spacing), "LineSpacingChanged", <<spacing>>)
    /\ UNCHANGED <<clock, tick_queue>>

MarginHorizontalChanged ==
    /\ \E margin \in MarginInputs :
          Step(reduce_MarginHorizontalChanged(app, margin),
               "MarginHorizontalChanged", <<margin>>)
    /\ UNCHANGED <<clock, tick_queue>>

MarginVerticalChanged ==
    /\ \E margin \in MarginInputs :
          Step(reduce_MarginVerticalChanged(app, margin), "MarginVerticalChanged", <<margin>>)
    /\ UNCHANGED <<clock, tick_queue>>

WordSpacingChanged ==
    /\ \E spacing \in WordSpacingInputs :
          Step(reduce_WordSpacingChanged(app, spacing), "WordSpacingChanged", <<spacing>>)
    /\ UNCHANGED <<clock, tick_queue>>

LetterSpacingChanged ==
    /\ \E spacing \in LetterSpacingInputs :
          Step(reduce_LetterSpacingChanged(app, spacing), "LetterSpacingChanged", <<spacing>>)
    /\ UNCHANGED <<clock, tick_queue>>

NextSettings ==
    \/ FontSizeChanged
    \/ LinesPerPageChanged
    \/ PauseAfterSentenceChanged
    \/ SetTtsSpeed
    \/ LineSpacingChanged
    \/ MarginHorizontalChanged
    \/ MarginVerticalChanged
    \/ WordSpacingChanged
    \/ LetterSpacingChanged

SpecSettings == InitSettings /\ [][NextSettings]_vars

(* Every numeric setting of a configuration lies in its range *)
in_ranges(config) ==
    /\ config.tts_speed \in MIN_TTS_SPEED..MAX_TTS_SPEED
    /\ config.pause_after_sentence \in 0..2
    /\ le(<<4, 5>>, config.line_spacing) /\ le(config.line_spacing, <<5, 2>>)
    /\ config.margin_horizontal <= MAX_MARGIN
    /\ config.margin_vertical <= MAX_MARGIN
    /\ config.word_spacing <= MAX_WORD_SPACING
    /\ config.letter_spacing <= MAX_LETTER_SPACING
    /\ config.font_size \in MIN_FONT_SIZE..MAX_FONT_SIZE
    /\ config.lines_per_page \in MIN_LINES_PER_PAGE..MAX_LINES_PER_PAGE

(* Values far outside every range, on both sides where the type has two *)
AnyNumber == {-1, 0, 1, 2, 3, 4, 6, 49, 100}

(* C31: numeric configuration inputs are clamped, not rejected.  After any
   sequence of configuration messages every numeric setting lies in its range
   (tts_speed, pause_after_sentence, line_spacing, both margins,
   word_spacing, letter_spacing, font_size, lines_per_page), and whatever
   value the next message carries, the setting it writes is in range after
   it. *)
C31_SettingsClamped ==
    /\ in_ranges(app.config)
    /\ \A v \in AnyNumber :
          /\ in_ranges(reduce_SetTtsSpeed(app, v).app.config)
          /\ in_ranges(reduce_PauseAfterSentenceChanged(app, v).app.config)
          /\ in_ranges(reduce_FontSizeChanged(app, v).app.config)
          /\ in_ranges(reduce_LinesPerPageChanged(app, v).app.config)
          /\ in_ranges(reduce_LineSpacingChanged(app, <<v, 2>>).app.config)
          /\ v >= 0 =>
                /\ in_ranges(reduce_MarginHorizontalChanged(app, v).app.config)
                /\ in_ranges(reduce_MarginVerticalChanged(app, v).app.config)
                /\ in_ranges(reduce_WordSpacingChanged(app, v).app.config)
                /\ in_ranges(reduce_LetterSpacingChanged(app, v).app.config)

(* Out-of-range values were sent and every one of the settings sits at the
   edge it was clamped to *)
C31_Witness ==
    /\ last.msg = "WordSpacingChanged"
    /\ last.arg = <<MAX_WORD_SPACING + 1>>
    /\ app.config.word_spacing = MAX_WORD_SPACING
    /\ app.config.letter_spacing = MAX_LETTER_SPACING
    /\ app.config.margin_horizontal = MAX_MARGIN
    /\ app.config.margin_vertical = MAX_MARGIN
    /\ app.config.line_spacing = <<5, 2>>
    /\ app.config.font_size = MAX_FONT_SIZE
    /\ app.config.lines_per_page = MIN_LINES_PER_PAGE


(* The position the bookmark records: page, spoken sentence, scroll offset *)
bookmarked(a) ==
    <<a.reader.current_page, a.tts.current_sentence_idx, a.bookmark.last_scroll_offset>>

(* SaveBookmark is among the effects, after every effect that moves the position *)
saved_after_change(effects) ==
    \E i \in 1..Len(effects) :
        /\ effects[i] = SaveBookmark
        /\ \A j \in (i + 1)..Len(effects) :
              effects[j][1] \notin {"StartTts", "StopTts", "ScrollTo", "AutoScrollToCurrent"}

(* C32: the bookmark is written after every position-affecting event.  Every
   step of App::update that changes current_page, current_sentence_idx or the
   stored scroll offset also emits a SaveBookmark effect that runs after the
   change, an accepted or empty TtsPrepared batch and a re-pagination
   included. *)
C32_BookmarkSaved ==
    [][bookmarked(app') # bookmarked(app) => saved_after_change(last'.effects)]_vars


-----------------------------------------------------------------------------
(* The top bar layout (app/topbar_layout.rs).  A label is the sequence of its
   characters. *)

CONTROLS_SPACING_PX == <<10, 1>>

CONTROLS_PADDING_BUDGET_PX == <<12, 1>>

estimate_button_width_px(label) == add(mul(as_f32(Len(label)), <<42, 5>>), <<36, 1>>)

(* The six labels that are always shown *)
mandatory_labels(labels) ==
    <<rep("x", 8), rep("x", 4), labels.theme, rep("x", 10), labels.settings, labels.stats>>

RECURSIVE sum_widths(_, _)
sum_widths(ls, n) ==
    IF n = 0 THEN <<0, 1>> ELSE add(sum_widths(ls, n - 1), estimate_button_width_px(ls[n]))

mandatory_width(labels) ==
    add(sum_widths(mandatory_labels(labels), Len(mandatory_labels(labels))),
        mul(CONTROLS_SPACING_PX, as_f32(saturating_sub(Len(mandatory_labels(labels)), 1))))

controls_budget(available_width) ==
    fmax(sub(available_width, CONTROLS_PADDING_BUDGET_PX), <<0, 1>>)

(* The closure add_optional: the width used afterwards and whether the
   control is shown *)
add_optional_always(used, label, budget) ==
    [used |-> add(used, add(CONTROLS_SPACING_PX, estimate_button_width_px(label))),
     shown |-> TRUE]

add_optional(used, label, budget) ==
    bind(add(CONTROLS_SPACING_PX, estimate_button_width_px(label)), LAMBDA extra :
        IF le(add(used, extra), budget)
        THEN [used |-> add(used, extra), shown |-> TRUE]
        ELSE [used |-> used, shown |-> FALSE])

topbar_plan(available_width, labels) ==
    bind(controls_budget(available_width), LAMBDA budget :
    bind(mandatory_width(labels), LAMBDA mandatory :
        IF le(budget, mandatory)
        THEN [show_text_mode |-> FALSE, show_tts |-> FALSE, show_search |-> FALSE]
        ELSE bind(add_optional(mandatory, labels.text_mode, budget), LAMBDA text_mode :
             bind(add_optional(text_mode.used, labels.tts, budget), LAMBDA tts :
             bind(add_optional(tts.used, labels.search, budget), LAMBDA search :
                 [show_text_mode |-> text_mode.shown,
                  show_tts |-> tts.shown,
                  show_search |-> search.shown])))))

(* The widths the window can have, in steps of ten pixels around the widths
   at which controls appear, and a very wide window *)
WidthSteps == 45

Widths == {<<0, 1>>, <<5000, 1>>} \cup {<<690 + 10 * k, 1>> : k \in 0..WidthSteps}

(* The labels of the controls in their two states *)
LabelSets ==
    {[theme |-> rep("x", theme), settings |-> rep("x", 13), stats |-> rep("x", 10),
      text_mode |-> rep("x", text_mode), tts |-> rep("x", tts), search |-> rep("x", 6)] :
         theme \in {8, 10}, text_mode \in {9, 11}, tts \in {3, 8}}

InitTopbar ==
    /\ app = [available_width |-> <<0, 1>>, labels |-> CHOOSE l \in LabelSets : TRUE,
              plan |-> None]
    /\ inflight = {}
    /\ issued = <<>>
    /\ clock = 0
    /\ tick_queue = <<>>
    /\ last = [msg |-> "bootstrap", arg |-> <<>>, effects |-> <<>>,
              repeat |-> FALSE, before |-> <<>>]
    /\ normalizer = [config |-> DefaultConfig]
    /\ planning = [display_sentences |-> <<>>, plan |-> None]
    /\ calls = <<>>

(* The view lays the top bar out for a window width and a set of labels *)
LayoutTopbar ==
    /\ \E available_width \in Widths, labels \in LabelSets :
          app' = [available_width |-> available_width, labels |-> labels,
                  plan |-> Some(topbar_plan(available_width, labels))]
    /\ UNCHANGED <<inflight, issued, clock, tick_queue, last, normalizer, planning, calls>>

SpecTopbar == InitTopbar /\ [][LayoutTopbar]_vars

(* Width of a control with the spacing before it *)
extra_width(label) == add(<<10, 1>>, add(mul(<<Len(label), 1>>, <<42, 5>>), <<36, 1>>))

(* Estimated width of the mandatory controls *)
mandatory_total(labels) ==
    add(<<50, 1>>,
        add(mul(<<8 + 4 + Len(labels.theme) + 10 + Len(labels.settings) + Len(labels.stats), 1>>,
                <<42, 5>>),
            <<216, 1>>))

(* Estimated width of everything a plan shows *)
shown_total(shown, labels) ==
    add(add(add(mandatory_total(labels),
                IF shown.show_text_mode THEN extra_width(labels.text_mode) ELSE <<0, 1>>),
            IF shown.show_tts THEN extra_width(labels.tts) ELSE <<0, 1>>),
        IF shown.show_search THEN extra_width(labels.search) ELSE <<0, 1>>)

(* What the stated rule gives for a width and labels *)
fits(used, label, width) == le(add(used, extra_width(label)), sub(width, <<12, 1>>))

planned_by_rule(width, labels) ==
    IF le(fmax(sub(width, <<12, 1>>), <<0, 1>>), mandatory_total(labels))
    THEN [show_text_mode |-> FALSE, show_tts |-> FALSE, show_search |-> FALSE]
    ELSE LET text_mode == fits(mandatory_total(labels), labels.text_mode, width)
             used1 == IF text_mode
                      THEN add(mandatory_total(labels), extra_width(labels.text_mode))
                      ELSE mandatory_total(labels)
             tts == fits(used1, labels.tts, width)
             used2 == IF tts THEN add(used1, extra_width(labels.tts)) ELSE used1
         IN [show_text_mode |-> text_mode, show_tts |-> tts,
             show_search |-> fits(used2, labels.search, width)]

(* C33: topbar_plan shows no optional control when the mandatory controls'
   estimated width is >= the budget (available width - 12); otherwise it
   considers text-mode, TTS and search in that order and shows each exactly
   when the width used so far plus the spacing (10) plus the control's
   estimated width stays <= the budget, so that the estimated width of
   everything shown does not exceed the budget. *)
C33_TopbarThresholds ==
    IsSome(app.plan) =>
        /\ Unwrap(app.plan) = planned_by_rule(app.available_width, app.labels)
        /\ lt(mandatory_total(app.labels), fmax(sub(app.available_width, <<12, 1>>), <<0, 1>>))
              => le(shown_total(Unwrap(app.plan), app.labels),
                    sub(app.available_width, <<12, 1>>))

(* A width at which text-mode and TTS fit and search no longer does *)
C33_Witness ==
    /\ IsSome(app.plan)
    /\ Unwrap(app.plan) = [show_text_mode |-> TRUE, show_tts |-> TRUE, show_search |-> FALSE]

(* C34: topbar_plan preserves the priority text-mode > TTS > search for every
   available width and every label set: a lower-priority control is never
   shown while a higher-priority one is hidden. *)
C34_PriorityPreserved ==
    IsSome(app.plan) =>
        /\ Unwrap(app.plan).show_search => Unwrap(app.plan).show_tts
        /\ Unwrap(app.plan).show_tts => Unwrap(app.plan).show_text_mode


-----------------------------------------------------------------------------
(* The current page stays inside the page list *)

page_in_range(a) ==
    /\ Len(a.reader.pages) > 0
    /\ a.reader.current_page \in 0..(Len(a.reader.pages) - 1)

(* C35: in every reachable state the page list is non-empty and
   current_page < pages.len(): NextPage on the last page and PreviousPage on
   page 0 change nothing, re-pagination clamps current_page, and SeekForward,
   SeekBackward and the Tick of a finished page never move current_page out
   of range. *)
C35_PageInRange ==
    /\ page_in_range(app)
    /\ app.reader.current_page + 1 = Len(app.reader.pages)
          => reduce_NextPage(app) = [app |-> app, effects |-> <<>>]
    /\ app.reader.current_page = 0
          => reduce_PreviousPage(app) = [app |-> app, effects |-> <<>>]
    /\ \A size \in FontSizeInputs :
          page_in_range(update(reduce_FontSizeChanged(app, size)).app)
    /\ \A lines \in LinesInputs :
          page_in_range(update(reduce_LinesPerPageChanged(app, lines)).app)
    /\ page_in_range(update(reduce_SeekForward(app)).app)
    /\ page_in_range(update(reduce_SeekBackward(app)).app)
    /\ \A now \in Nows : page_in_range(update(reduce_Tick(app, now)).app)

(* NextPage was delivered on the last of several pages and changed nothing *)
C35_Witness ==
    /\ last.msg = "NextPage"
    /\ last.effects = <<>>
    /\ Len(app.reader.pages) > 1
    /\ app.reader.current_page + 1 = Len(app.reader.pages)


-----------------------------------------------------------------------------
(* C36: in every reachable state, when current_sentence_idx is Some(i) then
   i < len(last_sentences), the sentence list of the page the session was
   started for; in particular it is never Some while that list is empty,
   after any sequence of starts, seeks, ticks and accepted batches. *)
C36_SentenceIdxInRange ==
    IsSome(app.tts.current_sentence_idx)
        => Unwrap(app.tts.current_sentence_idx) < Len(app.tts.last_sentences)


-----------------------------------------------------------------------------
(* C37: in every reachable state, running implies that a playback handle
   exists and started_at is Some: no sequence of Play, Pause, seek, StartTts,
   StopTts and TtsPrepared events leaves the machine running without an
   active session and a start instant. *)
C37_RunningHasSession ==
    app.tts.running => IsSome(app.tts.playback) /\ IsSome(app.tts.started_at)

(* Play resumed a paused session *)
C37_Witness ==
    /\ last.msg = "Play"
    /\ last.effects = <<>>
    /\ app.tts.running
    /\ app.tts.playback = Some([paused |-> FALSE])


-----------------------------------------------------------------------------
(* The playback time a Tick at now would see: the accumulated time plus the
   time since started_at *)
effective_elapsed(a, now) ==
    a.tts.elapsed + (IF IsSome(a.tts.started_at)
                     THEN saturating_duration_since(now, Unwrap(a.tts.started_at))
                     ELSE 0)

(* The sentence under the cursor after a Tick at now *)
idx_after_tick(a, now) == update(reduce_Tick(a, now)).app.tts.current_sentence_idx

(* C38: no playback time is lost by Play: a Pause followed by Play preserves
   the accumulated elapsed time, and a Play received while the session is
   already running does not change the effective elapsed time (elapsed + time
   since started_at), so that the sentence resolved by the next Tick is the
   same as if that Play had not been received and current_sentence_idx never
   moves backwards. *)
C38_PlayLosesNoTime ==
    \A now \in Nows :
        session_exists(app) =>
            LET paused == update(reduce_Pause(app, now)).app
                resumed == update(reduce_Play(paused, now)).app
                again == update(reduce_Play(app, now)).app
            IN /\ resumed.tts.elapsed = effective_elapsed(app, now)
               /\ app.tts.running =>
                     /\ \A later \in Nows : later >= now =>
                            /\ effective_elapsed(again, later) = effective_elapsed(app, later)
                            /\ idx_after_tick(again, later) = idx_after_tick(app, later)


-----------------------------------------------------------------------------
(* The session a StartTts effect for a page and a sentence leaves behind *)
started_idx(a, page, sentence_idx) ==
    IF Len(split_sentences(page_text(a, page))) = 0 THEN None
    ELSE Some(Min(sentence_idx, Len(split_sentences(page_text(a, page))) - 1))

(* C40: the effects of one reducer step are executed in emission order, and
   whenever a step emits StartTts it is emitted before AutoScrollToCurrent
   and SaveBookmark (and after StopTts in the Tick of a finished page), so
   that the auto-scroll and the saved bookmark of that step reflect the
   page and the start sentence of the session just started, never the
   superseded one. *)
C40_StartBeforeScrollAndSave ==
    \A k \in 1..Len(last.effects) :
        last.effects[k][1] = "StartTts" =>
            /\ \A i \in 1..Len(last.effects) :
                  /\ last.effects[i][1] \in {"AutoScrollToCurrent", "SaveBookmark"} => i > k
                  /\ last.effects[i][1] = "StopTts" => i < k
            /\ last.effects[k][2] = app.reader.current_page
            /\ app.tts.engine =>
                  /\ app.tts.last_sentences =
                        split_sentences(page_text(app, last.effects[k][2]))
                  /\ app.tts.current_sentence_idx =
                        started_idx(app, last.effects[k][2], last.effects[k][3])
                  /\ (app.config.auto_scroll_tts /\ IsSome(app.tts.current_sentence_idx)) =>
                        Some(app.bookmark.last_scroll_offset) =
                            scroll_offset_for_sentence(
                                app, Unwrap(app.tts.current_sentence_idx),
                                Len(app.tts.last_sentences))

(* The Tick of a finished page restarted narration on the next page, and a
   seek restarted it on a later sentence of the page *)
C40_Witness ==
    /\ last.msg = "Tick"
    /\ Len(last.effects) = 4
    /\ last.effects[1] = StopTts
    /\ last.effects[2] = StartTts(app.reader.current_page, 0)
    /\ app.tts.current_sentence_idx = Some(0)


-----------------------------------------------------------------------------
(* Narration left to itself: Play is issued once, in the state the program
   starts in, and afterwards only the timer, the ticks, the results of the
   prepare tasks and the passing of time act. *)

(* Time enough to narrate every page of the document *)
MaxNarrationTime == 10

PlayIssued ==
    /\ last.msg = "bootstrap"
    /\ Play

(* Time passes while a session is running.  The tick period (50 ms) is far
   below one clock unit, so a tick of the current instant has been reduced, or
   the session has just started, before the clock moves *)
Elapse ==
    /\ app.tts.running
    /\ IsSome(app.tts.started_at)
    /\ \/ app.tts.started_at = Some(clock)
       \/ last.msg = "Tick" /\ last.arg = <<clock>>
    /\ clock < MaxNarrationTime
    /\ clock' = clock + 1
    /\ UNCHANGED <<app, inflight, issued, tick_queue, last, normalizer, planning, calls>>

NextNarration ==
    \/ PlayIssued
    \/ TimerFire
    \/ Tick
    \/ TtsPrepared
    \/ Elapse

(* The subscription keeps producing ticks while running and the runtime
   delivers every queued message (weak fairness of TimerFire and Tick); every
   prepare task completes (weak fairness of TtsPrepared); time passes however
   the messages interleave (strong fairness of Elapse). *)
SpecNarration ==
    /\ Init
    /\ [][NextNarration]_vars
    /\ WF_vars(PlayIssued)
    /\ WF_vars(TimerFire)
    /\ WF_vars(Tick)
    /\ WF_vars(TtsPrepared)
    /\ SF_vars(Elapse)

on_last_page(a) == a.reader.current_page + 1 = Len(a.reader.pages)

(* C39 as stated: once Play has been issued and with no further user events,
   if ticks keep being delivered and every prepare request eventually
   delivers its TtsPrepared result, narration eventually reaches the last page
   and the machine eventually becomes not running. *)
C39_NarrationReachesLastPage ==
    (last.msg = "Play") ~> (on_last_page(app) /\ ~app.tts.running)

(* C39, amended: under the same conditions the machine eventually stops for
   good, with no request pending: it never stays running forever; it has then
   reached the last page unless there is no engine or the session it stopped
   in has no track (the page has no sentence, the batch was empty or
   play_files failed). *)
C39_NarrationStops ==
    <>[](/\ ~app.tts.running
         /\ inflight = {}
         /\ (on_last_page(app) \/ ~app.tts.engine \/ app.tts.track = <<>>))

(* Narration went from an earlier page to the last page and stopped there *)
C39_Witness ==
    /\ last.msg = "Tick"
    /\ Len(last.effects) > 0
    /\ last.effects[1] = StopTts
    /\ app.reader.current_page > 0
    /\ on_last_page(app)
    /\ ~app.tts.running

====
